---- MODULE Spec2Model ----
(***************************************************************************)
(* Autonomous Control Tower: risk orchestration core.                      *)
(*                                                                         *)
(* State machine of RiskService (app/services/risk_service.py) and of the  *)
(* CentralOrchestrator (app/services/orchestrator.py): its monitor path    *)
(* and its two loops over the active shipments; of the ActionService       *)
(* (app/services/action_service.py); and of the simulation records of      *)
(* SimulationService (app/services/simulation_service.py) with their       *)
(* background tasks.                                                       *)
(* Every quantity the code keeps in [0,1] (confidence, congestion level,   *)
(* scenario score) is an integer number of 1/ScoreUnit, so that the        *)
(* comparisons of the code (> 0.7, > 0.8) are exact.                       *)
(***************************************************************************)
EXTENDS Integers, Sequences, FiniteSets, TLC

\* ---------------------------------------------------------------- bounds
\* rows the risks table may hold
MaxRisks == 2

\* rows the simulations table may hold
MaxSimulations == 2

\* ------------------------------------------------------------- constants
ScoreUnit == 48 * 500

Scaled(n, d) == (n * ScoreUnit) \div d

Min(a, b) == IF a < b THEN a ELSE b

Max(a, b) == IF a > b THEN a ELSE b

\* callers of RiskService.assess_shipment that run as separate tasks
AssessCallers == {"assessor", "simtask"}

NoValue == "none"

\* app/models/risk.py: RiskStatus, by member name
RiskStatus ==
  [DETECTED |-> "detected", ANALYZING |-> "analyzing", MITIGATING |-> "mitigating",
   RESOLVED |-> "resolved", ESCALATED |-> "escalated"]

RiskStatusValues == {RiskStatus[n] : n \in DOMAIN RiskStatus}

\* app/models/risk.py: RiskSeverity
RiskSeverity == [LOW |-> "low", MEDIUM |-> "medium", HIGH |-> "high", CRITICAL |-> "critical"]

\* app/models/risk.py: RiskType (the members the detectors use)
RiskType ==
  [PORT_CONGESTION |-> "port_congestion", CUSTOMS_DELAY |-> "customs_delay",
   QUALITY_HOLD |-> "quality_hold"]

\* app/models/shipment.py: ShipmentStatus (the members the services write
\* or read)
ShipmentStatus ==
  [PENDING |-> "pending", IN_TRANSIT |-> "in_transit", ARRIVED |-> "arrived",
   CANCELLED |-> "cancelled"]

\* app/models/risk.py: RiskType.OTHER
RiskTypeOther == "other"

\* app/models/risk.py: the values of RiskType and of RiskSeverity
RiskTypeValues ==
  {"port_congestion", "customs_delay", "quality_hold", "weather_impact",
   "equipment_failure", "labor_strike", "security_issue", "route_blockage",
   "capacity_shortage", "other"}

RiskSeverityValues == {"low", "medium", "high", "critical"}

\* RiskType[name].value and RiskSeverity[name].value, for the member names
RiskTypeByName ==
  [n \in {"PORT_CONGESTION", "CUSTOMS_DELAY", "QUALITY_HOLD", "WEATHER_IMPACT",
          "EQUIPMENT_FAILURE", "LABOR_STRIKE", "SECURITY_ISSUE", "ROUTE_BLOCKAGE",
          "CAPACITY_SHORTAGE", "OTHER"} |->
     CASE n = "PORT_CONGESTION" -> "port_congestion"
       [] n = "CUSTOMS_DELAY" -> "customs_delay"
       [] n = "QUALITY_HOLD" -> "quality_hold"
       [] n = "WEATHER_IMPACT" -> "weather_impact"
       [] n = "EQUIPMENT_FAILURE" -> "equipment_failure"
       [] n = "LABOR_STRIKE" -> "labor_strike"
       [] n = "SECURITY_ISSUE" -> "security_issue"
       [] n = "ROUTE_BLOCKAGE" -> "route_blockage"
       [] n = "CAPACITY_SHORTAGE" -> "capacity_shortage"
       [] n = "OTHER" -> "other"]

RiskSeverityByName ==
  [n \in {"LOW", "MEDIUM", "HIGH", "CRITICAL"} |->
     CASE n = "LOW" -> "low" [] n = "MEDIUM" -> "medium"
       [] n = "HIGH" -> "high" [] n = "CRITICAL" -> "critical"]

\* risk types and severities a caller may pass: a member (it equals its
\* value), a member name, a value in mixed case, and strings that name no
\* member
RiskTypeInputs ==
  {"customs_delay", "QUALITY_HOLD", "Weather_Impact", "piracy", "Other"}

RiskSeverityInputs == {"high", "CRITICAL", "Low", "severe"}

\* the type and severity of the creation calls followed through the tables
RiskCreateInputs ==
  { <<"customs_delay", "high">>, <<"QUALITY_HOLD", "CRITICAL">>,
    <<"Weather_Impact", "Low">>, <<"piracy", "severe">> }

\* str.upper() and str.lower() on the strings above
Upper(x) ==
  CASE x \in RiskTypeValues ->
         CHOOSE n \in DOMAIN RiskTypeByName : RiskTypeByName[n] = x
    [] x \in RiskSeverityValues ->
         CHOOSE n \in DOMAIN RiskSeverityByName : RiskSeverityByName[n] = x
    [] x = "Weather_Impact" -> "WEATHER_IMPACT"
    [] x = "Other" -> "OTHER"
    [] x = "Low" -> "LOW"
    [] x = "piracy" -> "PIRACY"
    [] x = "severe" -> "SEVERE"
    [] OTHER -> x

Lower(x) ==
  CASE x \in DOMAIN RiskTypeByName -> RiskTypeByName[x]
    [] x \in DOMAIN RiskSeverityByName -> RiskSeverityByName[x]
    [] x = "Weather_Impact" -> "weather_impact"
    [] x = "Other" -> "other"
    [] x = "Low" -> "low"
    [] OTHER -> x

\* create_risk keeping a string that names no member
CreateRiskTypeUnchecked(x) ==
  IF Upper(x) \in DOMAIN RiskTypeByName THEN RiskTypeByName[Upper(x)]
  ELSE x

\* RiskService.create_risk: RiskType[x.upper()].value, else
\* RiskType(x).value, else RiskType.OTHER.value
CreateRiskType(x) ==
  IF Upper(x) \in DOMAIN RiskTypeByName THEN RiskTypeByName[Upper(x)]
  ELSE IF x \in RiskTypeValues THEN x
  ELSE RiskTypeOther

\* RiskService.create_risk: RiskSeverity[x.upper()].value, else
\* RiskSeverity(x).value, else RiskSeverity.MEDIUM.value
CreateRiskSeverity(x) ==
  IF Upper(x) \in DOMAIN RiskSeverityByName THEN RiskSeverityByName[Upper(x)]
  ELSE IF x \in RiskSeverityValues THEN x
  ELSE RiskSeverity.MEDIUM

\* CentralOrchestrator._create_risk: RiskType[x], else RiskType(x), else
\* RiskType.OTHER; the value of the member is stored
OrchestratorRiskType(x) ==
  IF x \in DOMAIN RiskTypeByName THEN RiskTypeByName[x]
  ELSE IF x \in RiskTypeValues THEN x
  ELSE RiskTypeOther

\* CentralOrchestrator._create_risk: RiskSeverity[x].value, else
\* RiskSeverity(x).value, else RiskSeverity.MEDIUM.value
OrchestratorRiskSeverity(x) ==
  IF x \in DOMAIN RiskSeverityByName THEN RiskSeverityByName[x]
  ELSE IF x \in RiskSeverityValues THEN x
  ELSE RiskSeverity.MEDIUM

\* RiskService.assess_shipment: candidate_rt_val, then the type of the row:
\* by upper-cased name, else by value, else candidate_rt_val
AssessRiskType(x) ==
  LET candidate_rt_val ==
        IF Upper(x) \in DOMAIN RiskTypeByName THEN RiskTypeByName[Upper(x)]
        ELSE IF x \in RiskTypeValues THEN x
        ELSE RiskTypeOther
  IN IF Upper(x) \in DOMAIN RiskTypeByName THEN RiskTypeByName[Upper(x)]
     ELSE IF x \in RiskTypeValues THEN x
     ELSE candidate_rt_val

\* RiskService.assess_shipment: the severity and the status of the row
AssessRiskSeverity(x) ==
  IF Upper(x) \in DOMAIN RiskSeverityByName THEN RiskSeverityByName[Upper(x)]
  ELSE IF x \in RiskSeverityValues THEN x
  ELSE RiskSeverity.MEDIUM

AssessRiskStatus(x) ==
  IF x \in DOMAIN RiskStatus THEN RiskStatus[x]
  ELSE IF x \in RiskStatusValues THEN x
  ELSE RiskStatus.DETECTED

\* status strings a caller may pass: the member values, a member name, and a
\* string that is neither
StatusInputs == RiskStatusValues \cup {"RESOLVED", "reopened"}

\* RiskStatus[x.upper()].value, else RiskStatus(x).value, else x itself
NormalizeStatus(x) ==
  IF x \in DOMAIN RiskStatus THEN RiskStatus[x]
  ELSE IF x \in RiskStatusValues THEN x
  ELSE x

\* ------------------------------------------------------ shipment context
\* RiskService._get_congestion_level
GetCongestionLevel(port) ==
  CASE port = "CNSHA" -> Scaled(8, 10)
    [] port = "USLAX" -> Scaled(7, 10)
    [] port = "SGSIN" -> Scaled(4, 10)
    [] port = "NLRTM" -> Scaled(6, 10)
    [] OTHER -> Scaled(3, 10)

\* f"{delay_hours:.1f}"
Fmt1f(h) ==
  CASE h = 4 -> "4.0" [] h = 5 -> "5.0" [] h = 6 -> "6.0" [] h = 24 -> "24.0"
    [] h = 25 -> "25.0" [] h = 30 -> "30.0" [] h = 48 -> "48.0" [] h = 60 -> "60.0"
    [] OTHER -> "0.0"

\* A description f"{prefix} {arg}" is the pair <<prefix, arg>>.
Candidate(sid, rtype, sev, desc, conf) ==
  [shipment_id |-> sid, risk_type |-> rtype, severity |-> sev,
   description |-> desc, confidence |-> conf, status |-> RiskStatus.DETECTED]

\* _detect_port_congestion with HIGH from 0.8 on
DetectPortCongestionFrom(sid, port, congestion_level) ==
  IF congestion_level > Scaled(7, 10)
  THEN << Candidate(sid, RiskType.PORT_CONGESTION,
                    IF congestion_level >= Scaled(8, 10)
                    THEN RiskSeverity.HIGH ELSE RiskSeverity.MEDIUM,
                    <<"Port congestion detected at", port>>, congestion_level) >>
  ELSE << >>

\* RiskService._detect_port_congestion, once _get_congestion_level has
\* returned congestion_level for the next port
DetectPortCongestionAt(sid, port, congestion_level) ==
  IF congestion_level > Scaled(7, 10)
  THEN << Candidate(sid, RiskType.PORT_CONGESTION,
                    IF congestion_level > Scaled(8, 10)
                    THEN RiskSeverity.HIGH ELSE RiskSeverity.MEDIUM,
                    <<"Port congestion detected at", port>>, congestion_level) >>
  ELSE << >>

\* RiskService._detect_port_congestion
DetectPortCongestion(sid, sh) ==
  IF sh.next_port # NoValue
  THEN DetectPortCongestionAt(sid, sh.next_port, GetCongestionLevel(sh.next_port))
  ELSE << >>

\* RiskService._detect_customs_delays
DetectCustomsDelays(sid, sh) ==
  IF sh.customs_status \in {"delayed", "held", "under_review"}
  THEN << Candidate(sid, RiskType.CUSTOMS_DELAY, RiskSeverity.HIGH,
                    <<"Customs clearance", sh.customs_status>>, Scaled(85, 100)) >>
  ELSE << >>

\* RiskService._detect_quality_holds
DetectQualityHolds(sid, sh) ==
  IF sh.quality_status \in {"hold", "inspection"}
  THEN << Candidate(sid, RiskType.QUALITY_HOLD, RiskSeverity.MEDIUM,
                    <<"Quality inspection", sh.quality_status>>, Scaled(9, 10)) >>
  ELSE << >>

\* _detect_delays emitting from 4 hours on
DetectDelaysFromFour(sid, sh) ==
  IF sh.hours_late > 0 /\ sh.hours_late >= 4
  THEN << Candidate(sid, RiskTypeOther,
                    IF sh.hours_late > 24 THEN RiskSeverity.HIGH ELSE RiskSeverity.MEDIUM,
                    <<"Shipment delayed by", Fmt1f(sh.hours_late)>>,
                    Min(Scaled(9, 10), Scaled(sh.hours_late, 48))) >>
  ELSE << >>

\* RiskService._detect_delays
DetectDelays(sid, sh) ==
  IF sh.hours_late > 0 /\ sh.hours_late > 4
  THEN << Candidate(sid, RiskTypeOther,
                    IF sh.hours_late > 24 THEN RiskSeverity.HIGH ELSE RiskSeverity.MEDIUM,
                    <<"Shipment delayed by", Fmt1f(sh.hours_late)>>,
                    Min(Scaled(9, 10), Scaled(sh.hours_late, 48))) >>
  ELSE << >>

\* RiskService.detect_risks
DetectRisks(sid, sh) ==
  DetectPortCongestion(sid, sh) \o DetectCustomsDelays(sid, sh)
    \o DetectQualityHolds(sid, sh) \o DetectDelays(sid, sh)

\* ------------------------------------------------- mitigation simulator
Scenario(name, action, savings, cost, port, delay) ==
  [name |-> name, action_type |-> action, estimated_time_savings |-> savings,
   cost_impact |-> cost, alternative_port |-> port, delay_hours |-> delay]

\* SimulationService._get_alternative_port
GetAlternativePort(port) ==
  CASE port = "CNSHA" -> "CNNGB"
    [] port = "USLAX" -> "USLGB"
    [] port = "NLRTM" -> "BEANR"
    [] port = "SGSIN" -> "MYPKG"
    [] OTHER -> "ALT001"

\* the templates with an expedited clearance that saves two days at no cost
GenerateMitigationScenariosGenerous(rtype, next_port) ==
  CASE rtype = "port_congestion" ->
         << Scenario("Alternative Port", "reroute", 24, 5000, GetAlternativePort(next_port), 0),
            Scenario("Schedule Adjustment", "delay", 12, 1000, NoValue, 12) >>
    [] rtype = "customs_delay" ->
         << Scenario("Expedited Clearance", "expedite_customs", 48, 0, NoValue, 0),
            Scenario("Additional Documentation", "submit_documents", 12, 500, NoValue, 0) >>
    [] rtype = "quality_hold" ->
         << Scenario("Remote Inspection", "remote_inspection", 18, 1500, NoValue, 0),
            Scenario("Alternative Batch", "source_alternative", 24, 3000, NoValue, 0) >>
    [] OTHER ->
         << Scenario("Expedite Leg", "expedite_leg", 8, 1200, NoValue, 0) >>

\* SimulationService._generate_mitigation_scenarios
GenerateMitigationScenarios(rtype, next_port) ==
  CASE rtype = "port_congestion" ->
         << Scenario("Alternative Port", "reroute", 24, 5000, GetAlternativePort(next_port), 0),
            Scenario("Schedule Adjustment", "delay", 12, 1000, NoValue, 12) >>
    [] rtype = "customs_delay" ->
         << Scenario("Expedited Clearance", "expedite_customs", 20, 2500, NoValue, 0),
            Scenario("Additional Documentation", "submit_documents", 12, 500, NoValue, 0) >>
    [] rtype = "quality_hold" ->
         << Scenario("Remote Inspection", "remote_inspection", 18, 1500, NoValue, 0),
            Scenario("Alternative Batch", "source_alternative", 24, 3000, NoValue, 0) >>
    [] OTHER ->
         << Scenario("Expedite Leg", "expedite_leg", 8, 1200, NoValue, 0) >>

\* the confidence with the cost score growing with the cost
ConfidenceCostRewarded(est_savings, cost_impact) ==
  LET time_score == Min(ScoreUnit, Scaled(est_savings, 48))
      cost_score == Min(ScoreUnit, Scaled(cost_impact, 10000))
      risk_reduction == Scaled(7, 10)
  IN (time_score * 4 + cost_score * 3 + risk_reduction * 3) \div 10

\* SimulationService._run_simulation: the confidence of one scenario
Confidence(est_savings, cost_impact) ==
  LET time_score == Min(ScoreUnit, Scaled(est_savings, 48))
      cost_score == Max(0, ScoreUnit - Scaled(cost_impact, 10000))
      risk_reduction == Scaled(7, 10)
  IN (time_score * 4 + cost_score * 3 + risk_reduction * 3) \div 10

\* the "parameters" of a scenario, as far as the Action Executor reads them
Parameters(port, delay) == [alternative_port |-> port, delay_hours |-> delay]

\* one element of the list simulate_mitigations returns; parameters is
\* << p >> when the dict has the key "parameters", << >> when it has not
SimResult(name, action, conf, params) ==
  [scenario_name |-> name, action_type |-> action, confidence |-> conf,
   parameters |-> params]

\* SimulationService._run_simulation
RunSimulation(sc) ==
  SimResult(sc.name, sc.action_type,
            Confidence(sc.estimated_time_savings, sc.cost_impact),
            << Parameters(sc.alternative_port, sc.delay_hours) >>)

\* SimulationService.simulate_mitigations
SimulateMitigations(risk, shipment) ==
  LET scs == GenerateMitigationScenarios(risk.risk_type, shipment.next_port)
  IN [i \in 1 .. Len(scs) |-> RunSimulation(scs[i])]

\* the list tests/test_services.py hands to _handle_new_risk in place of
\* simulate_mitigations: one scenario, confidence 0.9, no "parameters" key
TestSimulationResults ==
  << SimResult("Test Scenario", "reroute", Scaled(9, 10), << >>) >>

\* Scenario lists handed to the decision pipeline by a simulation service
\* other than the built-in one: none, best 0.55, best exactly 0.7, best 0.9
\* (listed second, tied with the third), the list of the test, a schedule
\* adjustment at 0.8, and a remote inspection at 0.8, an action type
\* execute_action has no handler for.
SuppliedSimulations ==
  { << SimResult("Schedule Adjustment", "delay", Scaled(8, 10),
                 << Parameters(NoValue, 12) >>) >>,
    << SimResult("Remote Inspection", "remote_inspection", Scaled(8, 10),
                 << Parameters(NoValue, 0) >>) >>,
    << >>,
    << SimResult("Alternative Port", "reroute", Scaled(55, 100),
                 << Parameters("CNNGB", 0) >>) >>,
    << SimResult("Schedule Adjustment", "delay", Scaled(7, 10),
                 << Parameters(NoValue, 12) >>),
       SimResult("Alternative Port", "reroute", Scaled(55, 100),
                 << Parameters("CNNGB", 0) >>) >>,
    << SimResult("Schedule Adjustment", "delay", Scaled(6, 10),
                 << Parameters(NoValue, 12) >>),
       SimResult("Alternative Port", "reroute", Scaled(9, 10),
                 << Parameters("CNNGB", 0) >>),
       SimResult("Expedited Clearance", "expedite_customs", Scaled(9, 10),
                 << Parameters(NoValue, 0) >>) >>,
    TestSimulationResults }

\* ------------------------------------------- orchestrator: detector checks
\* the congestion level the orchestrator looks up for a port
GetPortCongestionLevel(port) == GetCongestionLevel(port)

\* CentralOrchestrator._check_delays
CheckDelays(sid, data) ==
  IF data.hours_late > 0 /\ data.hours_late > 4
  THEN << Candidate(sid, RiskTypeOther,
                    IF data.hours_late > 24 THEN RiskSeverity.HIGH ELSE RiskSeverity.MEDIUM,
                    <<"Shipment delayed by", Fmt1f(data.hours_late)>>,
                    Min(Scaled(9, 10), Scaled(data.hours_late, 48))) >>
  ELSE << >>

\* CentralOrchestrator._check_location: the risk it creates
CheckLocation(sid, data) ==
  IF /\ data.current_location # NoValue
     /\ data.next_port # NoValue
     /\ data.current_location # data.next_port
  THEN << Candidate(sid, RiskTypeOther, RiskSeverity.MEDIUM,
                    <<"Shipment deviated from expected route", data.current_location,
                      data.next_port>>,
                    Scaled(7, 10)) >>
  ELSE << >>

\* CentralOrchestrator._check_location: shipment_data after the call
LocationData(data) ==
  IF data.current_location = NoValue
  THEN [data EXCEPT !.current_location = "unknown"]
  ELSE data

\* CentralOrchestrator._check_port_congestion, once
\* _get_port_congestion_level has returned congestion_level: the risk it
\* creates
CheckPortCongestionAt(sid, port_code, congestion_level) ==
  IF congestion_level > Scaled(7, 10)
  THEN << Candidate(sid, RiskType.PORT_CONGESTION,
                    IF congestion_level > Scaled(8, 10)
                    THEN RiskSeverity.HIGH ELSE RiskSeverity.MEDIUM,
                    <<"Port congestion at", port_code>>, congestion_level) >>
  ELSE << >>

\* CentralOrchestrator._check_port_congestion, called when next_port is set
CheckPortCongestion(sid, data) ==
  IF data.next_port # NoValue
  THEN CheckPortCongestionAt(sid, data.next_port, GetPortCongestionLevel(data.next_port))
  ELSE << >>

\* CentralOrchestrator._check_customs_status
CheckCustomsStatus(sid, data) ==
  IF data.customs_status \in {"held", "delayed", "under_review"}
  THEN << Candidate(sid, RiskType.CUSTOMS_DELAY, RiskSeverity.HIGH,
                    <<"Customs clearance", data.customs_status>>, Scaled(85, 100)) >>
  ELSE << >>

\* CentralOrchestrator._check_quality_holds
CheckQualityHolds(sid, data) ==
  IF data.quality_status \in {"hold", "inspection"}
  THEN << Candidate(sid, RiskType.QUALITY_HOLD, RiskSeverity.MEDIUM,
                    <<"Quality inspection", "hold">>, Scaled(9, 10)) >>
  ELSE << >>

\* the checks of _monitor_shipment, in call order
MonitorChecks == <<"delays", "location", "congestion", "customs", "quality">>

CheckResult(k, sid, data) ==
  CASE k = "delays" -> CheckDelays(sid, data)
    [] k = "location" -> CheckLocation(sid, data)
    [] k = "congestion" -> CheckPortCongestion(sid, data)
    [] k = "customs" -> CheckCustomsStatus(sid, data)
    [] k = "quality" -> CheckQualityHolds(sid, data)

RECURSIVE RunChecks(_, _, _)
\* _monitor_shipment from the check at the head of checks on, up to the
\* first check that calls _create_risk: the candidate, the checks left and
\* shipment_data as the checks leave it
RunChecks(sid, data, checks) ==
  IF checks = << >>
  THEN [cand |-> << >>, checks |-> << >>, data |-> data]
  ELSE LET k == Head(checks)
           found == CheckResult(k, sid, data)
           after == IF k = "location" THEN LocationData(data) ELSE data
       IN IF found # << >>
          THEN [cand |-> found, checks |-> Tail(checks), data |-> after]
          ELSE RunChecks(sid, after, Tail(checks))

\* ------------------------------------------------------------------ state
VARIABLES
  risks,      \* the risks table: row i has id i
  shipments,  \* the shipments table, by shipment id
  assess,     \* per caller: the position of its assess_shipment run
  mon,        \* the monitor task: its position in _monitor_shipment,
              \* _create_risk and _handle_new_risk
  orch,       \* the CentralOrchestrator: active_shipments and the position
              \* of its two loops
  published,  \* the messages published to redis, as <<channel, ...>>
  simulations, \* the simulations table, by simulation id, each row with the
              \* position of the background task scheduled for it
  returned    \* << >>, or << r >> for the last direct call of a detector
              \* rule or of the scenario scoring: its name, arguments and
              \* return value

vars == <<risks, shipments, assess, mon, orch, published, simulations, returned>>

\* no rule has been called
NothingReturned == << >>

\* the ids of the rows in the risks table: a row delete_risk has removed
\* keeps its place in the sequence, marked deleted
RiskIds == {i \in 1 .. Len(risks) : ~risks[i].deleted}

ShipmentIds == DOMAIN shipments

\* a row of the risks table; origin records which code path inserted it,
\* executions how many times execute_action was called for the risk
NewRisk(c, origin) ==
  [shipment_id |-> c.shipment_id, risk_type |-> c.risk_type, severity |-> c.severity,
   description |-> c.description, confidence |-> c.confidence, status |-> c.status,
   resolved_at |-> FALSE, mitigation_result |-> NoValue, origin |-> origin,
   executions |-> 0, deleted |-> FALSE]

SetMax(S) == CHOOSE x \in S : \A y \in S : y <= x

\* RiskService._update_shipment_risk_flags; last_risk_check is TRUE once the
\* column holds a time
UpdateShipmentRiskFlags(rs, shs, sid) ==
  LET mine == {i \in 1 .. Len(rs) : rs[i].shipment_id = sid /\ ~rs[i].deleted} IN
  IF mine # {}
  THEN [shs EXCEPT ![sid].risk_score = SetMax({rs[i].confidence : i \in mine}),
                   ![sid].is_at_risk = \E i \in mine : rs[i].status = RiskStatus.DETECTED,
                   ![sid].last_risk_check = TRUE]
  ELSE [shs EXCEPT ![sid].risk_score = 0, ![sid].is_at_risk = FALSE,
                   ![sid].last_risk_check = TRUE]

\* ------------------------------------------- RiskService.assess_shipment
\* the duplicate test with the status compared against the member name
IsDuplicateByName(rs, sid, c) ==
  \E i \in 1 .. Len(rs) :
     /\ ~rs[i].deleted
     /\ rs[i].shipment_id = sid
     /\ rs[i].description = c.description
     /\ rs[i].status = "DETECTED"
     /\ rs[i].risk_type = c.risk_type

\* the duplicate test: rows of the shipment with the candidate's
\* description and status DETECTED, compared on risk_type
IsDuplicate(rs, sid, c) ==
  \E i \in 1 .. Len(rs) :
     /\ ~rs[i].deleted
     /\ rs[i].shipment_id = sid
     /\ rs[i].description = c.description
     /\ rs[i].status = RiskStatus.DETECTED
     /\ rs[i].risk_type = c.risk_type

IdleRun == [pc |-> "idle", sid |-> 0, cands |-> << >>, persisted |-> << >>]

AfterCandidate(rest) == IF rest = << >> THEN "finish" ELSE "check"

\* risks = await self.detect_risks(shipment_id, session)
AssessStart(a, sid) ==
  /\ assess[a].pc = "idle"
  /\ LET cs == DetectRisks(sid, shipments[sid]) IN
     assess' = [assess EXCEPT ![a] =
                  [pc |-> AfterCandidate(cs), sid |-> sid, cands |-> cs, persisted |-> << >>]]
  /\ UNCHANGED <<risks, shipments, mon, orch, published, simulations, returned>>

\* the select of the existing rows and the duplicate loop
AssessCheck(a) ==
  /\ assess[a].pc = "check"
  /\ LET c == Head(assess[a].cands) IN
     IF IsDuplicate(risks, assess[a].sid, c)
     THEN assess' = [assess EXCEPT ![a].cands = Tail(@),
                                   ![a].pc = AfterCandidate(Tail(assess[a].cands))]
     ELSE assess' = [assess EXCEPT ![a].pc = "insert"]
  /\ UNCHANGED <<risks, shipments, mon, orch, published, simulations, returned>>

\* the candidate with its enum fields coerced to values, as inserted
AssessNormalized(c) ==
  [c EXCEPT !.risk_type = AssessRiskType(@), !.severity = AssessRiskSeverity(@),
            !.status = AssessRiskStatus(@)]

\* INSERT INTO risks ... RETURNING id, and its commit
AssessInsert(a) ==
  /\ assess[a].pc = "insert"
  /\ Len(risks) < MaxRisks
  /\ risks' = Append(risks, NewRisk(AssessNormalized(Head(assess[a].cands)), "assess"))
  /\ assess' = [assess EXCEPT ![a].cands = Tail(@),
                              ![a].persisted = Append(@, Len(risks) + 1),
                              ![a].pc = AfterCandidate(Tail(assess[a].cands))]
  /\ UNCHANGED <<shipments, mon, orch, published, simulations, returned>>

\* if persisted: commit, refresh, _update_shipment_risk_flags; return persisted
AssessFinish(a) ==
  /\ assess[a].pc = "finish"
  /\ shipments' = IF assess[a].persisted # << >>
                  THEN UpdateShipmentRiskFlags(risks, shipments, assess[a].sid)
                  ELSE shipments
  /\ assess' = [assess EXCEPT ![a].pc = "idle"]
  /\ UNCHANGED <<risks, mon, orch, published, simulations, returned>>

\* ------------------------------------------------ RiskService: mutations
\* the status assignment without the one of resolved_at
WithStatusOnly(rs, r, st) == [rs EXCEPT ![r].status = st]

\* the status and resolved_at assignments update_risk_status and update_risk share
WithStatus(rs, r, st) ==
  [rs EXCEPT ![r].status = st,
             ![r].resolved_at = IF st = RiskStatus.RESOLVED THEN TRUE ELSE @]

\* RiskService.create_risk, for a description and a confidence of the caller
CreateRisk(sid, rtype, sev) ==
  /\ Len(risks) < MaxRisks
  /\ LET c == Candidate(sid, CreateRiskType(rtype), CreateRiskSeverity(sev),
                        <<"Reported", rtype>>, Scaled(5, 10))
         rs == Append(risks, NewRisk(c, "create"))
     IN /\ risks' = rs
        /\ shipments' = UpdateShipmentRiskFlags(rs, shipments, sid)
  /\ UNCHANGED <<assess, mon, orch, published, simulations, returned>>

\* RiskService.delete_risk
DeleteRisk(r) ==
  /\ r \in RiskIds
  /\ LET rs == [risks EXCEPT ![r].deleted = TRUE]
     IN /\ risks' = rs
        /\ shipments' = UpdateShipmentRiskFlags(rs, shipments, risks[r].shipment_id)
  /\ UNCHANGED <<assess, mon, orch, published, simulations, returned>>

\* RiskService.update_risk_status
UpdateRiskStatus(r, status) ==
  /\ r \in RiskIds
  /\ LET rs == WithStatus(risks, r, NormalizeStatus(status))
     IN /\ risks' = rs
        /\ shipments' = UpdateShipmentRiskFlags(rs, shipments, risks[r].shipment_id)
  /\ UNCHANGED <<assess, mon, orch, published, simulations, returned>>

\* RiskService.update_risk, for an update that carries a status
UpdateRisk(r, status) ==
  /\ r \in RiskIds
  /\ LET rs == WithStatus(risks, r, NormalizeStatus(status))
     IN /\ risks' = rs
        /\ shipments' = UpdateShipmentRiskFlags(rs, shipments, risks[r].shipment_id)
  /\ UNCHANGED <<assess, mon, orch, published, simulations, returned>>

\* mitigation_result payloads, by shape: absent; {"status": "completed"};
\* {"status": "failed"}; "no_status", a dict without the key "status"; and
\* "text", the bare string "completed", which is not a dict
MitigationResults == {NoValue, "completed", "failed", "no_status", "text"}

\* apply_mitigation resolving on every result that is supplied
ApplyMitigationAnyResult(r, result) ==
  /\ r \in RiskIds
  /\ LET rs == [risks EXCEPT
                  ![r].mitigation_result = IF result # NoValue THEN result ELSE @,
                  ![r].status = IF result # NoValue THEN RiskStatus.RESOLVED ELSE @,
                  ![r].resolved_at = IF result # NoValue THEN TRUE ELSE @]
     IN /\ risks' = rs
        /\ shipments' = UpdateShipmentRiskFlags(rs, shipments, risks[r].shipment_id)
  /\ UNCHANGED <<assess, mon, orch, published, simulations, returned>>

\* RiskService.apply_mitigation
ApplyMitigation(r, result) ==
  /\ r \in RiskIds
  /\ LET rs == [risks EXCEPT
                  ![r].mitigation_result = IF result # NoValue THEN result ELSE @,
                  ![r].status = IF result = "completed" THEN RiskStatus.RESOLVED ELSE @,
                  ![r].resolved_at = IF result = "completed" THEN TRUE ELSE @]
     IN /\ risks' = rs
        /\ shipments' = UpdateShipmentRiskFlags(rs, shipments, risks[r].shipment_id)
  /\ UNCHANGED <<assess, mon, orch, published, simulations, returned>>

\* ------------------------------------------------------- ActionService
\* how a call of execute_action goes: the handler returns; it raises before
\* its commit; its commit succeeds and redis_client.publish raises
ExecutionOutcomes == {"returns", "raises", "publish_raises"}

\* the "action_type" a handler reports in its event and in its result
ReportedActionType(action_type) ==
  IF action_type = "delay" THEN "schedule_adjustment" ELSE action_type

\* _execute_reroute leaving the routes of the shipment as they are
ExecuteRerouteKeepingRoutes(sh, params) ==
  [sh EXCEPT !.next_port = IF params.alternative_port # NoValue
                           THEN params.alternative_port ELSE @,
             !.routes = Append(@, [is_active |-> TRUE, new_port |-> params.alternative_port]),
             !.metadata = @ \cup {"rerouted_at"}]

\* _execute_reroute: the shipment row after a reroute; a route is its
\* is_active flag and the alternative port of the reroute that created it
ExecuteReroute(sh, params) ==
  [sh EXCEPT !.next_port = IF params.alternative_port # NoValue
                           THEN params.alternative_port ELSE @,
             !.routes = Append([i \in 1 .. Len(@) |-> [@[i] EXCEPT !.is_active = FALSE]],
                               [is_active |-> TRUE, new_port |-> params.alternative_port]),
             !.metadata = @ \cup {"rerouted_at"}]

\* _execute_schedule_adjustment: estimated_arrival moves delay_hours later
ExecuteScheduleAdjustment(sh, params) ==
  [sh EXCEPT !.hours_late = Max(0, @ - params.delay_hours),
             !.metadata = @ \cup {"schedule_adjusted_at"}]

\* _execute_expedite_customs
ExecuteExpediteCustoms(sh) ==
  [sh EXCEPT !.metadata = @ \cup {"customs_expedited_at"}]

\* the handler of an action type, as far as its commit
Committed(sh, action_type, params) ==
  CASE action_type = "reroute" -> ExecuteReroute(sh, params)
    [] action_type = "delay" -> ExecuteScheduleAdjustment(sh, params)
    [] action_type = "expedite_customs" -> ExecuteExpediteCustoms(sh)
    [] OTHER -> sh

\* execute_action returning success without the publish of its handler
ExecuteActionUnpublished(sh, action_type, params, outcome) ==
  IF action_type \notin {"reroute", "delay", "expedite_customs"} \/ outcome = "raises"
  THEN [shipment |-> sh, success |-> FALSE, event |-> << >>]
  ELSE [shipment |-> Committed(sh, action_type, params), success |-> TRUE,
        event |-> << >>]

\* ActionService.execute_action: the shipment row it leaves, the result it
\* returns and the action_type of the event it publishes, if any. The
\* parameters of a scenario carry no "new_mode", for which mode_switch
\* returns success False; for every other action type execute_action calls
\* self._execute_generic_action, which ActionService does not define, and
\* its except clause turns the AttributeError into success False.
ExecuteAction(sh, action_type, params, outcome) ==
  IF action_type \notin {"reroute", "delay", "expedite_customs"} \/ outcome = "raises"
  THEN [shipment |-> sh, success |-> FALSE, event |-> << >>]
  ELSE IF outcome = "publish_raises"
  THEN [shipment |-> Committed(sh, action_type, params), success |-> FALSE,
        event |-> << >>]
  ELSE [shipment |-> Committed(sh, action_type, params), success |-> TRUE,
        event |-> << ReportedActionType(action_type) >>]

\* ------------------------------------------- orchestrator: monitor task
\* shipment_data as _load_active_shipments stores it: the keys "shipment"
\* and "last_checked" only, so every key a check reads is absent
LoadedData ==
  [next_port |-> NoValue, current_location |-> NoValue, customs_status |-> NoValue,
   quality_status |-> NoValue, hours_late |-> 0]

\* shipment_data carrying the shipment's fields under the keys the checks read
FlatData(sh) ==
  [next_port |-> sh.next_port, current_location |-> sh.current_location,
   customs_status |-> sh.customs_status, quality_status |-> sh.quality_status,
   hours_late |-> sh.hours_late]

ShipmentDataInputs(sid) == {LoadedData, FlatData(shipments[sid])}

IdleMon ==
  [pc |-> "idle", sid |-> 0, data |-> LoadedData, checks |-> << >>, cand |-> << >>,
   risk_id |-> 0, sims |-> << >>, best |-> << >>, result |-> << >>,
   calls |-> << >>, handled |-> FALSE, raised |-> FALSE, sim_failed |-> FALSE]

\* the policy constant of _handle_new_risk
ConfidenceThreshold == Scaled(7, 10)

\* CentralOrchestrator._select_best_mitigation: {} is << >>, else the first
\* element of greatest confidence
SelectBestMitigation(sims) ==
  IF sims = << >> THEN << >>
  ELSE LET top == SetMax({sims[i].confidence : i \in 1 .. Len(sims)})
           first == CHOOSE i \in 1 .. Len(sims) :
                      /\ sims[i].confidence = top
                      /\ \A j \in 1 .. i - 1 : sims[j].confidence # top
       IN << sims[first] >>

\* best_option.get("confidence", 0)
BestConfidence(best) == IF best = << >> THEN 0 ELSE best[1].confidence

\* the test of step 3 with >= in place of >
ShouldExecuteAtThreshold(best) == BestConfidence(best) >= ConfidenceThreshold

\* the test of _handle_new_risk, step 3
ShouldExecute(best) == BestConfidence(best) > ConfidenceThreshold

\* the monitor task after one check's _create_risk has returned, or at the
\* start of _monitor_shipment: run the checks left
ContinueChecks(m, sid, data, checks) ==
  LET run == RunChecks(sid, data, checks) IN
  [m EXCEPT !.pc = IF run.cand = << >> THEN "idle" ELSE "create",
            !.sid = sid, !.data = run.data, !.checks = run.checks, !.cand = run.cand]

\* CentralOrchestrator._monitor_shipment(shipment_id, shipment_data)
MonitorShipment(sid, data) ==
  /\ mon.pc = "idle"
  /\ mon' = ContinueChecks(mon, sid, data, MonitorChecks)
  /\ UNCHANGED <<risks, shipments, assess, orch, published, simulations, returned>>

\* CentralOrchestrator._create_risk(shipment_id, risk_type, severity, ...)
\* called with strings, outside a check
OrchestratorCreateRisk(sid, rtype, sev) ==
  /\ mon.pc = "idle"
  /\ mon' = [IdleMon EXCEPT !.pc = "create", !.sid = sid,
                            !.cand = << Candidate(sid, rtype, sev, <<"Reported", rtype>>,
                                                  Scaled(5, 10)) >>]
  /\ UNCHANGED <<risks, shipments, assess, orch, published, simulations, returned>>

\* the row _create_risk builds: type and severity normalised, status detected
OrchestratorNormalized(c) ==
  [c EXCEPT !.risk_type = OrchestratorRiskType(@),
            !.severity = OrchestratorRiskSeverity(@),
            !.status = RiskStatus.DETECTED]

\* _create_risk going on without the row being committed
CreateRiskUncommitted ==
  /\ mon.pc = "create"
  /\ Len(risks) < MaxRisks
  /\ mon' = [mon EXCEPT !.pc = "flags", !.risk_id = Len(risks) + 1, !.sims = << >>,
                        !.best = << >>, !.result = << >>, !.calls = << >>,
                        !.handled = FALSE, !.raised = FALSE, !.sim_failed = FALSE]
  /\ UNCHANGED <<risks, shipments, assess, orch, published, simulations, returned>>

\* _create_risk: session.add(risk); await session.commit()
CreateRiskCommit ==
  /\ mon.pc = "create"
  /\ Len(risks) < MaxRisks
  /\ risks' = Append(risks, NewRisk(OrchestratorNormalized(mon.cand[1]), "monitor"))
  /\ mon' = [mon EXCEPT !.pc = "flags", !.risk_id = Len(risks) + 1, !.sims = << >>,
                        !.best = << >>, !.result = << >>, !.calls = << >>,
                        !.handled = FALSE, !.raised = FALSE, !.sim_failed = FALSE]
  /\ UNCHANGED <<shipments, assess, orch, published, simulations, returned>>

\* _create_risk: the shipment's risk flag, and its commit
CreateRiskFlags ==
  /\ mon.pc = "flags"
  /\ shipments' = [shipments EXCEPT
                     ![mon.sid].is_at_risk = TRUE,
                     ![mon.sid].risk_score = Max(@, mon.cand[1].confidence),
                     ![mon.sid].last_risk_check = TRUE]
  /\ mon' = [mon EXCEPT !.pc = "publish"]
  /\ UNCHANGED <<risks, assess, orch, published, simulations, returned>>

\* _create_risk: await redis_client.publish("risk_detected", ...)
CreateRiskPublish ==
  /\ mon.pc = "publish"
  /\ mon' = [mon EXCEPT !.pc = "simulate"]
  /\ published' = published \cup {<<"risk_detected", mon.sid, mon.risk_id>>}
  /\ UNCHANGED <<risks, shipments, assess, orch, simulations, returned>>

\* what simulation_service.simulate_mitigations may return for the risk
SimulationResults(rid, sid) ==
  {IF risks[rid].deleted THEN << >> ELSE SimulateMitigations(risks[rid], shipments[sid])}
    \cup SuppliedSimulations

\* an exception that leaves _handle_new_risk, _create_risk and the check:
\* the except of _monitor_shipment ends the monitoring of this shipment
MonitorRaised(m) ==
  [m EXCEPT !.pc = "idle", !.checks = << >>, !.cand = << >>,
            !.handled = TRUE, !.raised = TRUE]

\* _handle_new_risk, steps 1 to 3: simulate, select, and either go on to
\* execute_action or escalate (_escalate_to_human never suspends);
\* best_option["parameters"] raises KeyError when the key is absent.
\* simulate_mitigations has no handler of its own: when one of its awaits
\* raises, the exception leaves _handle_new_risk before any call has
\* returned (calls lists the calls that returned).
HandleNewRiskSimulate ==
  /\ mon.pc = "simulate"
  /\ \/ mon' = MonitorRaised([mon EXCEPT !.sim_failed = TRUE])
     \/ \E sims \in SimulationResults(mon.risk_id, mon.sid) :
          LET best == SelectBestMitigation(sims)
              m == [mon EXCEPT !.sims = sims, !.best = best,
                               !.calls = << <<"simulate", mon.sid, mon.risk_id>> >>]
          IN IF ShouldExecute(best)
             THEN IF best[1].parameters = << >>
                  THEN mon' = MonitorRaised(m)
                  ELSE mon' = [m EXCEPT !.pc = "execute"]
             ELSE mon' = ContinueChecks(
                           [m EXCEPT !.handled = TRUE,
                                     !.calls = Append(@, <<"escalate", mon.sid, mon.risk_id>>)],
                           mon.sid, mon.data, mon.checks)
  /\ UNCHANGED <<risks, shipments, assess, orch, published, simulations, returned>>

\* _handle_new_risk, step 3: await self.action_service.execute_action(...)
HandleNewRiskExecute ==
  /\ mon.pc = "execute"
  /\ \E outcome \in ExecutionOutcomes :
       LET out == ExecuteAction(shipments[mon.sid], mon.best[1].action_type,
                                mon.best[1].parameters[1], outcome)
       IN /\ shipments' = [shipments EXCEPT ![mon.sid] = out.shipment]
          /\ published' = published \cup
               {<<"action_executed", mon.sid, out.event[k]>> : k \in DOMAIN out.event}
          /\ risks' = [risks EXCEPT ![mon.risk_id].executions = @ + 1]
          /\ mon' = [mon EXCEPT !.pc = "notify",
                                !.result = << out.success >>,
                                !.calls = Append(@, <<"execute", mon.sid,
                                                     mon.best[1].action_type>>)]
  /\ UNCHANGED <<assess, orch, simulations, returned>>

\* step 4 calling execute_action again when it had reported a failure
HandleNewRiskNotifyRetrying ==
  /\ mon.pc = "notify"
  /\ mon' = IF mon.result = << FALSE >>
            THEN [mon EXCEPT !.pc = "execute"]
            ELSE ContinueChecks(
                   [mon EXCEPT !.handled = TRUE,
                               !.calls = Append(@, <<"notify", mon.sid, mon.risk_id,
                                                    mon.best[1].action_type, mon.result[1]>>)],
                   mon.sid, mon.data, mon.checks)
  /\ UNCHANGED <<risks, shipments, assess, orch, published, simulations, returned>>

\* _handle_new_risk, step 4: notify_stakeholders(shipment_id, risk_id,
\* action_taken, action_result), then back in _monitor_shipment
HandleNewRiskNotify ==
  /\ mon.pc = "notify"
  /\ mon' = ContinueChecks(
              [mon EXCEPT !.handled = TRUE,
                          !.calls = Append(@, <<"notify", mon.sid, mon.risk_id,
                                               mon.best[1].action_type, mon.result[1]>>)],
              mon.sid, mon.data, mon.checks)
  /\ UNCHANGED <<risks, shipments, assess, orch, published, simulations, returned>>

\* ------------------------------------------------ orchestrator: the loops
\* ShipmentService.update_shipment, for an update that carries a status
UpdateShipment(sid, status) ==
  /\ sid \in ShipmentIds
  /\ shipments' = [shipments EXCEPT ![sid].status = status]
  /\ UNCHANGED <<risks, assess, mon, orch, published, simulations, returned>>

RECURSIVE KeysInOrder(_)
\* the keys of a dict in iteration order: rows are inserted in id order
KeysInOrder(S) ==
  IF S = {} THEN << >>
  ELSE LET k == CHOOSE x \in S : \A y \in S : x <= y
       IN << k >> \o KeysInOrder(S \ {k})

\* _load_active_shipments: every shipment whose status is in_transit gets
\* the entry {"shipment": ..., "last_checked": ...}; no key is deleted
LoadActiveShipments(active, shs) ==
  [sid \in DOMAIN active \cup {i \in DOMAIN shs : shs[i].status = ShipmentStatus.IN_TRANSIT}
     |-> LoadedData]

\* initialize running whenever it is called, the loops already started
InitializeAgain ==
  /\ orch' = [orch EXCEPT !.started = TRUE,
                          !.active_shipments = LoadActiveShipments(@, shipments)]
  /\ UNCHANGED <<risks, shipments, assess, mon, published, simulations, returned>>

\* CentralOrchestrator.initialize, called once at startup: load the active
\* shipments, then create the two loop tasks
Initialize ==
  /\ ~orch.started
  /\ orch' = [orch EXCEPT !.started = TRUE,
                          !.active_shipments = LoadActiveShipments(@, shipments)]
  /\ UNCHANGED <<risks, shipments, assess, mon, published, simulations, returned>>

\* _monitoring_loop: while True, try, for ... in self.active_shipments.items()
MonitoringLoopIterate ==
  /\ orch.started
  /\ orch.mloop.pc = "top"
  /\ orch' = [orch EXCEPT !.mloop.pc = "iter",
                          !.mloop.todo = KeysInOrder(DOMAIN orch.active_shipments)]
  /\ UNCHANGED <<risks, shipments, assess, mon, published, simulations, returned>>

\* the loop with _monitor_shipment letting an exception through: the
\* exception of the shipment before reaches the except clause of the loop
MonitoringLoopShipmentUncontained ==
  /\ orch.mloop.pc = "iter"
  /\ orch.mloop.todo # << >>
  /\ mon.pc = "idle"
  /\ IF mon.raised
     THEN /\ mon' = [mon EXCEPT !.raised = FALSE]
          /\ orch' = [orch EXCEPT !.mloop.pc = "except", !.mloop.todo = << >>]
     ELSE /\ LET sid == Head(orch.mloop.todo) IN
             mon' = ContinueChecks(mon, sid, orch.active_shipments[sid], MonitorChecks)
          /\ orch' = [orch EXCEPT !.mloop.todo = Tail(@)]
  /\ UNCHANGED <<risks, shipments, assess, published, simulations, returned>>

\* _monitoring_loop: await self._monitor_shipment(shipment_id, shipment_data)
MonitoringLoopShipment ==
  /\ orch.mloop.pc = "iter"
  /\ orch.mloop.todo # << >>
  /\ mon.pc = "idle"
  /\ LET sid == Head(orch.mloop.todo) IN
     mon' = ContinueChecks(mon, sid, orch.active_shipments[sid], MonitorChecks)
  /\ orch' = [orch EXCEPT !.mloop.todo = Tail(@)]
  /\ UNCHANGED <<risks, shipments, assess, published, simulations, returned>>

\* _monitoring_loop: await self._process_redis_messages(), which routes no
\* message, and the sleep of monitoring_interval
MonitoringLoopSleep ==
  /\ orch.mloop.pc = "iter"
  /\ orch.mloop.todo = << >>
  /\ mon.pc = "idle"
  /\ orch' = [orch EXCEPT !.mloop.pc = "top"]
  /\ UNCHANGED <<risks, shipments, assess, mon, published, simulations, returned>>

\* _monitoring_loop: an exception raised inside the try
MonitoringLoopRaise ==
  /\ orch.mloop.pc = "iter"
  /\ mon.pc = "idle"
  /\ orch' = [orch EXCEPT !.mloop.pc = "except", !.mloop.todo = << >>,
                          !.mloop.raised = TRUE]
  /\ UNCHANGED <<risks, shipments, assess, mon, published, simulations, returned>>

\* the except clause ending the loop instead of sleeping
MonitoringLoopDies ==
  /\ orch.mloop.pc = "except"
  /\ orch' = [orch EXCEPT !.mloop.pc = "dead"]
  /\ UNCHANGED <<risks, shipments, assess, mon, published, simulations, returned>>

\* _monitoring_loop: except Exception: print, await asyncio.sleep(5)
MonitoringLoopBackoff ==
  /\ orch.mloop.pc = "except"
  /\ orch' = [orch EXCEPT !.mloop.pc = "top"]
  /\ UNCHANGED <<risks, shipments, assess, mon, published, simulations, returned>>

MonitoringLoop ==
  \/ MonitoringLoopIterate
  \/ MonitoringLoopShipment
  \/ MonitoringLoopSleep
  \/ MonitoringLoopRaise
  \/ MonitoringLoopBackoff

\* _risk_assessment_loop: while True, try; _assess_all_shipments_risks:
\* for ... in self.active_shipments.items()
RiskAssessmentLoopIterate ==
  /\ orch.started
  /\ orch.aloop.pc = "top"
  /\ orch' = [orch EXCEPT !.aloop.pc = "iter",
                          !.aloop.todo = KeysInOrder(DOMAIN orch.active_shipments)]
  /\ UNCHANGED <<risks, shipments, assess, mon, published, simulations, returned>>

\* _assess_all_shipments_risks: await self.risk_service.assess_shipment(...),
\* up to the end of detect_risks
AssessAllShipmentsRisks ==
  /\ orch.aloop.pc = "iter"
  /\ orch.aloop.todo # << >>
  /\ assess["assessor"].pc = "idle"
  /\ LET sid == Head(orch.aloop.todo)
         cs == DetectRisks(sid, shipments[sid])
     IN assess' = [assess EXCEPT !["assessor"] =
                     [pc |-> AfterCandidate(cs), sid |-> sid, cands |-> cs,
                      persisted |-> << >>]]
  /\ orch' = [orch EXCEPT !.aloop.todo = Tail(@)]
  /\ UNCHANGED <<risks, shipments, mon, published, simulations, returned>>

\* the rows _update_risk_scores leaves: a shipment that has risks gets the
\* greatest confidence of them and is at risk when one of them is DETECTED
UpdatedRiskScores(rs, shs) ==
  [sid \in DOMAIN shs |->
     LET mine == {i \in 1 .. Len(rs) : rs[i].shipment_id = sid /\ ~rs[i].deleted} IN
     IF mine # {}
     THEN [shs[sid] EXCEPT
             !.risk_score = SetMax({rs[i].confidence : i \in mine}),
             !.is_at_risk = \E i \in mine : rs[i].status = RiskStatus.DETECTED]
     ELSE shs[sid]]

\* _risk_assessment_loop: await self._update_risk_scores(), and the sleep of
\* risk_check_interval
UpdateRiskScores ==
  /\ orch.aloop.pc = "iter"
  /\ orch.aloop.todo = << >>
  /\ assess["assessor"].pc = "idle"
  /\ shipments' = UpdatedRiskScores(risks, shipments)
  /\ orch' = [orch EXCEPT !.aloop.pc = "top"]
  /\ UNCHANGED <<risks, assess, mon, published, simulations, returned>>

\* _risk_assessment_loop: an exception raised inside the try; the one call
\* without a handler of its own is _update_risk_scores
RiskAssessmentLoopRaise ==
  /\ orch.aloop.pc = "iter"
  /\ orch.aloop.todo = << >>
  /\ assess["assessor"].pc = "idle"
  /\ orch' = [orch EXCEPT !.aloop.pc = "except", !.aloop.raised = TRUE]
  /\ UNCHANGED <<risks, shipments, assess, mon, published, simulations, returned>>

\* _risk_assessment_loop: except Exception: print, await asyncio.sleep(10)
RiskAssessmentLoopBackoff ==
  /\ orch.aloop.pc = "except"
  /\ orch' = [orch EXCEPT !.aloop.pc = "top"]
  /\ UNCHANGED <<risks, shipments, assess, mon, published, simulations, returned>>

RiskAssessmentLoop ==
  \/ RiskAssessmentLoopIterate
  \/ AssessAllShipmentsRisks
  \/ AssessCheck("assessor")
  \/ AssessInsert("assessor")
  \/ AssessFinish("assessor")
  \/ UpdateRiskScores
  \/ RiskAssessmentLoopRaise
  \/ RiskAssessmentLoopBackoff

\* ------------------------------------------------------ simulation records
\* app/models/simulation.py: SimulationStatus
SimulationStatus ==
  [PENDING |-> "pending", RUNNING |-> "running", COMPLETED |-> "completed",
   FAILED |-> "failed"]

SimulationIds == 1 .. Len(simulations)

\* SimulationService.create_simulation: the row it commits. results,
\* best_option and confidence_score are << >> while the column is NULL and
\* << v >> once it holds v. task is the background task the endpoint adds
\* for the row: its function, its risk_data type, and its position.
NewSimulation(sid, params, kind, rtype) ==
  [shipment_id |-> sid, parameters |-> params, status |-> SimulationStatus.PENDING,
   results |-> << >>, best_option |-> << >>, confidence_score |-> << >>,
   task |-> [kind |-> kind, risk_type |-> rtype, pc |-> "scheduled"],
   rerun_error |-> FALSE]

\* parameters of a simulation request: shipment_id 0 when the dict has no
\* such key
SimulationParameters(sid, with_shipment) ==
  [shipment_id |-> IF with_shipment THEN sid ELSE 0]

\* endpoints/simulations.py: create_simulation (POST /)
CreateSimulation(sid, with_shipment) ==
  /\ sid \in ShipmentIds
  /\ Len(simulations) < MaxSimulations
  /\ simulations' = Append(simulations,
                           NewSimulation(sid, SimulationParameters(sid, with_shipment),
                                         "run_simulation_task", NoValue))
  /\ UNCHANGED <<risks, shipments, assess, mon, orch, published, returned>>

\* endpoints/simulations.py: run_mitigation_simulation (POST /mitigation/run)
RunMitigationSimulationRequest(sid, rtype) ==
  /\ sid \in ShipmentIds
  /\ Len(simulations) < MaxSimulations
  /\ simulations' = Append(simulations,
                           NewSimulation(sid, SimulationParameters(sid, FALSE),
                                         "run_mitigation_simulation", rtype))
  /\ UNCHANGED <<risks, shipments, assess, mon, orch, published, returned>>

\* max(sims, key=lambda x: x.get("confidence", 0)): the first of the greatest
BestOption(sims) ==
  LET top == SetMax({sims[i].confidence : i \in 1 .. Len(sims)})
  IN sims[CHOOSE i \in 1 .. Len(sims) :
            /\ sims[i].confidence = top
            /\ \A j \in 1 .. i - 1 : sims[j].confidence # top]

\* SimulationService.update_simulation_results on the row it loaded, for
\* results {"simulations": sims}
UpdatedSimulation(sim, sims) ==
  [sim EXCEPT !.status = SimulationStatus.COMPLETED,
              !.results = << sims >>,
              !.best_option = IF sims # << >> THEN << BestOption(sims) >> ELSE @,
              !.confidence_score =
                 IF sims # << >> THEN << BestOption(sims).confidence >> ELSE @]

\* results a caller of update_simulation_results may pass: no scenario, and
\* one scenario of confidence 0.5
SuppliedResults ==
  { << >>,
    << SimResult("What If", "analysis", Scaled(5, 10), << >>) >> }

\* SimulationService.update_simulation_results(simulation_id, results, session)
UpdateSimulationResults(id, sims) ==
  /\ id \in SimulationIds
  /\ simulations' = [simulations EXCEPT ![id] = UpdatedSimulation(@, sims)]
  /\ UNCHANGED <<risks, shipments, assess, mon, orch, published, returned>>

\* the one scenario run_simulation_task reports
RiskCheck(detected) ==
  [scenario_name |-> "Risk Check", action_type |-> "analysis",
   confidence |-> Scaled(85, 100), detected_risks |-> detected]

\* some row's run_simulation_task is inside assess_shipment
TaskAssessing == \E i \in SimulationIds : simulations[i].task.pc = "assessing"

\* run_simulation_task with a shipment_id in its parameters: up to the
\* detect_risks of assess_shipment. One task at a time is followed through
\* assess_shipment.
RunSimulationTaskAssess(id) ==
  /\ id \in SimulationIds
  /\ simulations[id].task.kind = "run_simulation_task"
  /\ simulations[id].task.pc = "scheduled"
  /\ simulations[id].parameters.shipment_id # 0
  /\ ~TaskAssessing
  /\ assess["simtask"].pc = "idle"
  /\ LET sid == simulations[id].parameters.shipment_id
         cs == DetectRisks(sid, shipments[sid])
     IN assess' = [assess EXCEPT !["simtask"] =
                     [pc |-> AfterCandidate(cs), sid |-> sid, cands |-> cs,
                      persisted |-> << >>]]
  /\ simulations' = [simulations EXCEPT ![id].task.pc = "assessing"]
  /\ UNCHANGED <<risks, shipments, mon, orch, published, returned>>

\* run_simulation_task once assess_shipment has returned, or without a
\* shipment_id: the results payload and update_simulation_results
RunSimulationTaskUpdate(id) ==
  /\ id \in SimulationIds
  /\ simulations[id].task.kind = "run_simulation_task"
  /\ \/ /\ simulations[id].task.pc = "scheduled"
        /\ simulations[id].parameters.shipment_id = 0
        /\ simulations' = [simulations EXCEPT
                             ![id] = [UpdatedSimulation(@, << RiskCheck(<< >>) >>)
                                        EXCEPT !.task.pc = "returned"]]
     \/ /\ simulations[id].task.pc = "assessing"
        /\ assess["simtask"].pc = "idle"
        /\ simulations' = [simulations EXCEPT
                             ![id] = [UpdatedSimulation(
                                        @, << RiskCheck(assess["simtask"].persisted) >>)
                                        EXCEPT !.task.pc = "returned"]]
  /\ UNCHANGED <<risks, shipments, assess, mon, orch, published, returned>>

\* run_mitigation_simulation: rt_raw by lower-cased value, else by
\* upper-cased name, else OTHER
MitigationRiskType(rt_raw) ==
  IF rt_raw = NoValue THEN RiskTypeOther
  ELSE IF Lower(rt_raw) \in RiskTypeValues THEN Lower(rt_raw)
  ELSE IF Upper(rt_raw) \in DOMAIN RiskTypeByName THEN RiskTypeByName[Upper(rt_raw)]
  ELSE RiskTypeOther

\* risk_data["risk_type"] of a mitigation request: absent, a value, a name,
\* a string that names no member
MitigationTypeInputs == {NoValue, "port_congestion", "CUSTOMS_DELAY", "piracy"}

\* SimulationService.run_mitigation_simulation(simulation_id, shipment_id,
\* risk_data)
RunMitigationSimulation(id) ==
  /\ id \in SimulationIds
  /\ simulations[id].task.kind = "run_mitigation_simulation"
  /\ simulations[id].task.pc = "scheduled"
  /\ LET sid == simulations[id].shipment_id
         fake_risk == [risk_type |-> MitigationRiskType(simulations[id].task.risk_type)]
         sims_results == SimulateMitigations(fake_risk, shipments[sid])
     IN simulations' = [simulations EXCEPT
                          ![id] = [UpdatedSimulation(@, sims_results)
                                     EXCEPT !.task.pc = "returned"]]
  /\ UNCHANGED <<risks, shipments, assess, mon, orch, published, returned>>

\* an await of a background task raises (the session, assess_shipment, a
\* commit): neither task function has a handler, the exception ends the task
SimulationTaskRaises(id) ==
  /\ id \in SimulationIds
  /\ simulations[id].task.pc \in {"scheduled", "assessing"}
  /\ simulations' = [simulations EXCEPT ![id].task.pc = "raised"]
  /\ assess' = IF simulations[id].task.pc = "assessing"
               THEN [assess EXCEPT !["simtask"] = IdleRun]
               ELSE assess
  /\ UNCHANGED <<risks, shipments, mon, orch, published, returned>>

\* endpoints/simulations.py: rerun_simulation. SimulationService has no
\* reset_simulation: the call raises AttributeError before a task is added,
\* and the request ends in an error response.
RerunSimulation(id) ==
  /\ id \in SimulationIds
  /\ simulations' = [simulations EXCEPT ![id].rerun_error = TRUE]
  /\ UNCHANGED <<risks, shipments, assess, mon, orch, published, returned>>

\* --------------------------------------------- the rules, called directly
\* congestion levels _get_congestion_level or _get_port_congestion_level
\* may return: 0.3, 0.7, 0.75, 0.8, 0.85 and 1.0
CongestionLevels ==
  {Scaled(3, 10), Scaled(7, 10), Scaled(75, 100), Scaled(8, 10), Scaled(85, 100),
   ScoreUnit}

\* hours past estimated_arrival (0: not past it)
DelayHours == {0, 4, 5, 6, 24, 25, 30, 48, 60}

\* scenarios handed to _run_simulation: estimated_time_savings and
\* cost_impact on both sides of the clamps of the formula
ScenarioInputs ==
  { Scenario("Option", "reroute", s, c, NoValue, 0) :
      s \in {0, 12, 24, 60}, c \in {0, 1000, 5000, 12000} }

\* RiskService._detect_port_congestion(shipment, session) with
\* _get_congestion_level returning level
DetectPortCongestionCall(level) ==
  /\ returned' = << [fn |-> "_detect_port_congestion", level |-> level,
                     out |-> DetectPortCongestionAt(1, "CNSHA", level)] >>
  /\ UNCHANGED <<risks, shipments, assess, mon, orch, published, simulations>>

\* CentralOrchestrator._check_port_congestion(shipment_id, port_code) with
\* _get_port_congestion_level returning level: the _create_risk call it makes
CheckPortCongestionCall(level) ==
  /\ returned' = << [fn |-> "_check_port_congestion", level |-> level,
                     out |-> CheckPortCongestionAt(1, "CNSHA", level)] >>
  /\ UNCHANGED <<risks, shipments, assess, mon, orch, published, simulations>>

\* RiskService._detect_delays for a shipment h hours past estimated_arrival
DetectDelaysCall(h) ==
  /\ returned' = << [fn |-> "_detect_delays", hours |-> h,
                     out |-> DetectDelays(1, [hours_late |-> h])] >>
  /\ UNCHANGED <<risks, shipments, assess, mon, orch, published, simulations>>

\* CentralOrchestrator._check_delays for shipment_data h hours past
\* estimated_arrival: the _create_risk call it makes
CheckDelaysCall(h) ==
  /\ returned' = << [fn |-> "_check_delays", hours |-> h,
                     out |-> CheckDelays(1, [hours_late |-> h])] >>
  /\ UNCHANGED <<risks, shipments, assess, mon, orch, published, simulations>>

\* SimulationService._run_simulation on two scenarios for one risk
RunSimulationCall(a, b) ==
  /\ returned' = << [fn |-> "_run_simulation", a |-> a, b |-> b,
                     out |-> << RunSimulation(a), RunSimulation(b) >>] >>
  /\ UNCHANGED <<risks, shipments, assess, mon, orch, published, simulations>>

\* ---------------------------------------------------------- specifications
\* the orchestrator as __init__ leaves it: no active shipment, no loop started
NewOrchestrator ==
  [started |-> FALSE, active_shipments |-> << >>,
   mloop |-> [pc |-> "top", todo |-> << >>, raised |-> FALSE],
   aloop |-> [pc |-> "top", todo |-> << >>, raised |-> FALSE]]

ShipmentRow(port, loc, customs, quality, late) ==
  [next_port |-> port, current_location |-> loc, customs_status |-> customs,
   quality_status |-> quality, hours_late |-> late, is_at_risk |-> FALSE,
   risk_score |-> 0, last_risk_check |-> FALSE, status |-> ShipmentStatus.IN_TRANSIT,
   routes |-> << >>, metadata |-> {}]

\* the shipment contexts a behaviour starts from; the first has nothing for
\* a detector to find
ContextProfiles ==
  { ShipmentRow("SGSIN", "SGSIN", "cleared", "clear", 0),
    ShipmentRow("USLAX", "CNSHA", "cleared", "clear", 0),
    ShipmentRow(NoValue, NoValue, "held", "clear", 0),
    ShipmentRow("CNSHA", NoValue, "cleared", "hold", 0),
    ShipmentRow(NoValue, NoValue, "cleared", "clear", 6) }

InitWith(ids) ==
  /\ risks = << >>
  /\ shipments \in [ids -> ContextProfiles]
  /\ assess = [a \in AssessCallers |-> IdleRun]
  /\ mon = IdleMon
  /\ orch = NewOrchestrator
  /\ published = {}
  /\ simulations = << >>
  /\ returned = NothingReturned

AssessStep(callers) ==
  \/ \E a \in callers, sid \in ShipmentIds : AssessStart(a, sid)
  \/ \E a \in callers : AssessCheck(a)
  \/ \E a \in callers : AssessInsert(a)
  \/ \E a \in callers : AssessFinish(a)

\* RiskService driven by one caller of assess_shipment and by the status
\* operations
Init == InitWith({1})

Next ==
  \/ AssessStep({"assessor"})
  \/ \E r \in RiskIds, st \in StatusInputs : UpdateRiskStatus(r, st)
  \/ \E r \in RiskIds, st \in StatusInputs : UpdateRisk(r, st)

Spec == Init /\ [][Next]_vars

\* RiskService driven by one caller of assess_shipment, by
\* update_risk_status putting a risk under mitigation, and by apply_mitigation
NextMitigate ==
  \/ AssessStep({"assessor"})
  \/ \E r \in RiskIds : UpdateRiskStatus(r, RiskStatus.MITIGATING)
  \/ \E r \in RiskIds, res \in MitigationResults : ApplyMitigation(r, res)

SpecMitigate == Init /\ [][NextMitigate]_vars

\* two tasks inside assess_shipment at once: the assessor loop and a
\* simulation background task
InitRace == InitWith({1, 2})

NextRace == AssessStep(AssessCallers)

SpecRace == InitRace /\ [][NextRace]_vars

\* the monitor task: the checks, _create_risk and the decision pipeline
InitOrch == InitWith({1, 2})

NextOrch ==
  \/ \E sid \in ShipmentIds : \E data \in ShipmentDataInputs(sid) : MonitorShipment(sid, data)
  \/ CreateRiskCommit
  \/ CreateRiskFlags
  \/ CreateRiskPublish
  \/ HandleNewRiskSimulate
  \/ HandleNewRiskExecute
  \/ HandleNewRiskNotify

SpecOrch == InitOrch /\ [][NextOrch]_vars

\* shipment ids of the loop specifications
LoopShipmentIds == {1, 2}

\* statuses update_shipment is called with
ShipmentStatusInputs ==
  {ShipmentStatus.IN_TRANSIT, ShipmentStatus.ARRIVED, ShipmentStatus.CANCELLED}

\* the shipment contexts of the loop specifications: nothing to find, and
\* customs held
LoopProfiles ==
  { ShipmentRow("SGSIN", "SGSIN", "cleared", "clear", 0),
    ShipmentRow(NoValue, NoValue, "held", "clear", 0) }

\* the orchestrator's two loops over shipments that are pending or in
\* transit at startup, with update_shipment changing their status; the
\* shipments have no more detectable risks than the risks table holds
InitLoops ==
  /\ risks = << >>
  /\ \E rows \in [LoopShipmentIds -> LoopProfiles],
        st \in [LoopShipmentIds -> {ShipmentStatus.PENDING, ShipmentStatus.IN_TRANSIT}] :
       /\ Len(DetectRisks(1, rows[1])) + Len(DetectRisks(2, rows[2])) <= MaxRisks
       /\ shipments = [sid \in LoopShipmentIds |-> [rows[sid] EXCEPT !.status = st[sid]]]
  /\ assess = [a \in AssessCallers |-> IdleRun]
  /\ mon = IdleMon
  /\ orch = NewOrchestrator
  /\ published = {}
  /\ simulations = << >>
  /\ returned = NothingReturned

NextLoops ==
  \/ Initialize
  \/ \E sid \in ShipmentIds, st \in ShipmentStatusInputs : UpdateShipment(sid, st)
  \/ MonitoringLoop
  \/ RiskAssessmentLoop

SpecLoops == InitLoops /\ [][NextLoops]_vars

\* the loops under the scheduling of the event loop: a task that can run is
\* run; update_shipment is a request that may never come
SpecLoopsFair ==
  /\ InitLoops
  /\ [][NextLoops]_vars
  /\ WF_vars(Initialize)
  /\ WF_vars(MonitoringLoop)
  /\ WF_vars(RiskAssessmentLoop)

\* the simulation endpoints and their background tasks, over one shipment
InitSim == InitWith({1})

NextSim ==
  \/ \E sid \in ShipmentIds, w \in BOOLEAN : CreateSimulation(sid, w)
  \/ \E sid \in ShipmentIds, rt \in MitigationTypeInputs :
       RunMitigationSimulationRequest(sid, rt)
  \/ \E id \in SimulationIds : RunSimulationTaskAssess(id)
  \/ AssessCheck("simtask")
  \/ AssessInsert("simtask")
  \/ AssessFinish("simtask")
  \/ \E id \in SimulationIds : RunSimulationTaskUpdate(id)
  \/ \E id \in SimulationIds : RunMitigationSimulation(id)
  \/ \E id \in SimulationIds : SimulationTaskRaises(id)
  \/ \E id \in SimulationIds, sims \in SuppliedResults : UpdateSimulationResults(id, sims)
  \/ \E id \in SimulationIds : RerunSimulation(id)

SpecSim == InitSim /\ [][NextSim]_vars

\* the three ways a risk row is created, called with type and severity strings
InitCreate ==
  /\ InitWith({1})
  /\ shipments[1] \in LoopProfiles

NextCreate ==
  \/ \E inp \in RiskCreateInputs : CreateRisk(1, inp[1], inp[2])
  \/ \E inp \in RiskCreateInputs : OrchestratorCreateRisk(1, inp[1], inp[2])
  \/ CreateRiskCommit
  \/ CreateRiskFlags
  \/ CreateRiskPublish
  \/ HandleNewRiskSimulate
  \/ HandleNewRiskExecute
  \/ HandleNewRiskNotify
  \/ AssessStep({"assessor"})

SpecCreate == InitCreate /\ [][NextCreate]_vars

\* the detector rules and the scenario scoring, called with their inputs
InitRules ==
  /\ InitWith({1})
  /\ shipments[1] = ShipmentRow("SGSIN", "SGSIN", "cleared", "clear", 0)

NextRules ==
  \/ \E level \in CongestionLevels : DetectPortCongestionCall(level)
  \/ \E level \in CongestionLevels : CheckPortCongestionCall(level)
  \/ \E h \in DelayHours : DetectDelaysCall(h)
  \/ \E h \in DelayHours : CheckDelaysCall(h)
  \/ \E a \in ScenarioInputs, b \in ScenarioInputs : RunSimulationCall(a, b)

SpecRules == InitRules /\ [][NextRules]_vars

\* one monitoring loop over an active set whose entries carry the fields the
\* checks read, as the dicts the tests hand to _monitor_shipment do, with
\* redis and the iteration of the dict not failing: every exception is one
\* of monitoring a shipment
InitTick ==
  /\ risks = << >>
  /\ shipments \in [LoopShipmentIds -> LoopProfiles]
  /\ assess = [a \in AssessCallers |-> IdleRun]
  /\ mon = IdleMon
  /\ orch = [NewOrchestrator EXCEPT
               !.started = TRUE,
               !.active_shipments = [sid \in LoopShipmentIds |-> FlatData(shipments[sid])]]
  /\ published = {}
  /\ simulations = << >>
  /\ returned = NothingReturned

NextTick ==
  \/ MonitoringLoopIterate
  \/ MonitoringLoopShipment
  \/ MonitoringLoopSleep
  \/ CreateRiskCommit
  \/ CreateRiskFlags
  \/ CreateRiskPublish
  \/ HandleNewRiskSimulate
  \/ HandleNewRiskExecute
  \/ HandleNewRiskNotify

SpecTick == InitTick /\ [][NextTick]_vars

\* the requests of the risks API together: create, update, mitigate, delete
RiskOpsStatuses == {"resolved", "RESOLVED", "detected"}

RiskOpsResults == {"completed", "failed"}

InitRiskOps ==
  /\ InitWith({1})
  /\ shipments[1] \in LoopProfiles

NextRiskOps ==
  \/ CreateRisk(1, "customs_delay", "high")
  \/ \E r \in RiskIds, st \in RiskOpsStatuses : UpdateRisk(r, st)
  \/ \E r \in RiskIds, st \in RiskOpsStatuses : UpdateRiskStatus(r, st)
  \/ \E r \in RiskIds, res \in RiskOpsResults : ApplyMitigation(r, res)
  \/ \E r \in RiskIds : DeleteRisk(r)

SpecRiskOps == InitRiskOps /\ [][NextRiskOps]_vars

\* the monitor task, which creates a risk through _create_risk and hands it
\* to the decision pipeline, beside the requests of the risks API in the same
\* event loop, each in the form that takes a risk out of DETECTED
NextFlags ==
  \/ CreateRisk(1, "customs_delay", "high")
  \/ \E r \in RiskIds : UpdateRisk(r, RiskStatus.RESOLVED)
  \/ \E r \in RiskIds : UpdateRiskStatus(r, RiskStatus.RESOLVED)
  \/ \E r \in RiskIds : ApplyMitigation(r, "completed")
  \/ \E r \in RiskIds : DeleteRisk(r)
  \/ MonitorShipment(1, FlatData(shipments[1]))
  \/ CreateRiskCommit
  \/ CreateRiskFlags
  \/ CreateRiskPublish
  \/ HandleNewRiskSimulate
  \/ HandleNewRiskExecute
  \/ HandleNewRiskNotify

SpecFlags == InitRiskOps /\ [][NextFlags]_vars

\* ------------------------------------------------------------------ claims
\* glossary: an active risk is one that is neither RESOLVED nor ESCALATED
ActiveStatuses == {RiskStatus.DETECTED, RiskStatus.ANALYZING, RiskStatus.MITIGATING}

TerminalStatuses == {RiskStatus.RESOLVED, RiskStatus.ESCALATED}

\* the edges of the risk lifecycle
LifecycleEdges ==
  { <<RiskStatus.DETECTED, RiskStatus.ANALYZING>>,
    <<RiskStatus.ANALYZING, RiskStatus.MITIGATING>>,
    <<RiskStatus.MITIGATING, RiskStatus.RESOLVED>>,
    <<RiskStatus.ANALYZING, RiskStatus.ESCALATED>>,
    <<RiskStatus.MITIGATING, RiskStatus.ESCALATED>> }

SameKey(i, j) ==
  /\ risks[i].shipment_id = risks[j].shipment_id
  /\ risks[i].risk_type = risks[j].risk_type
  /\ risks[i].description = risks[j].description

\* two distinct active rows of one shipment with one (type, description)
ActiveTwins(i, j) ==
  /\ i # j
  /\ SameKey(i, j)
  /\ risks[i].status \in ActiveStatuses
  /\ risks[j].status \in ActiveStatuses

\* a DETECTED row of shipment sid with the (type, description) of candidate c
DetectedTwin(sid, c) ==
  \E i \in RiskIds :
     /\ risks[i].shipment_id = sid
     /\ risks[i].risk_type = c.risk_type
     /\ risks[i].description = c.description
     /\ risks[i].status = RiskStatus.DETECTED

\* the greatest score of a scenario list
TopScore(sims) == SetMax({sims[i].confidence : i \in 1 .. Len(sims)})

\* C1: when an assess_shipment run examines a candidate for which the
\* shipment already has a DETECTED risk of the same (type, description), the
\* run inserts no row for it and does not add it to the list it returns.
C1_ReassessPersistsNothing ==
  [][\A a \in AssessCallers :
       ( /\ assess[a].pc = "check"
         /\ assess'[a] # assess[a]
         /\ DetectedTwin(assess[a].sid, Head(assess[a].cands)) )
       => /\ risks' = risks
          /\ assess'[a].persisted = assess[a].persisted
          /\ assess'[a].cands = Tail(assess[a].cands)
          /\ assess'[a].pc # "insert"]_vars

\* C1 witness: a run over a shipment that has candidates reached its end
\* having persisted none of them, every one matched by a DETECTED row
C1_Witness ==
  \E a \in AssessCallers :
     /\ assess[a].pc = "finish"
     /\ assess[a].persisted = << >>
     /\ assess[a].sid \in ShipmentIds
     /\ LET cs == DetectRisks(assess[a].sid, shipments[assess[a].sid]) IN
        /\ cs # << >>
        /\ \A k \in 1 .. Len(cs) : DetectedTwin(assess[a].sid, cs[k])

\* C2: in every reachable state no shipment has two active risks (DETECTED,
\* ANALYZING or MITIGATING) with the same (type, description).
C2_AtMostOneActivePerKey ==
  \A i, j \in RiskIds : ~ActiveTwins(i, j)

\* C3: whenever no assess_shipment run is in progress, however the runs
\* interleaved, no shipment has two active risks with the same
\* (type, description).
C3_InterleavedAssessNoTwins ==
  (\A a \in AssessCallers : assess[a].pc = "idle")
    => \A i, j \in RiskIds : ~ActiveTwins(i, j)

\* C4: whenever the monitor is between two ticks, the risks it has persisted
\* hold at most one active risk per shipment and (type, description).
C4_MonitorFindingsDeduplicated ==
  mon.pc = "idle"
    => \A i, j \in RiskIds :
         ~( /\ ActiveTwins(i, j)
            /\ risks[i].origin = "monitor"
            /\ risks[j].origin = "monitor" )

\* C5: once the decision pipeline has handled a risk whose best scenario
\* scores at most 0.7, the risk's recorded status is ESCALATED.
C5_LowScoreEndsEscalated ==
  ( /\ mon.handled
    /\ mon.sims # << >>
    /\ TopScore(mon.sims) <= Scaled(7, 10) )
    => risks[mon.risk_id].status = RiskStatus.ESCALATED

\* C6: for a risk whose scenarios all score at most 0.7, or that has no
\* scenario at all, the pipeline never calls the Action Executor; it ends
\* with the escalation and nothing else.
C6_NoExecutionAtOrBelowThreshold ==
  ( /\ mon.calls # << >>
    /\ (mon.sims = << >> \/ TopScore(mon.sims) <= Scaled(7, 10)) )
    => /\ \A k \in 1 .. Len(mon.calls) : mon.calls[k][1] # "execute"
       /\ mon.calls = << <<"simulate", risks[mon.risk_id].shipment_id, mon.risk_id>>,
                         <<"escalate", risks[mon.risk_id].shipment_id, mon.risk_id>> >>
       /\ mon.result = << >>

\* C6 witness: the pipeline has ended for a risk with no scenarios, by escalation
C6_Witness ==
  /\ mon.handled
  /\ mon.sims = << >>
  /\ Len(mon.calls) = 2
  /\ mon.calls[2][1] = "escalate"

\* C7: once the pipeline has handled a risk whose best scenario scores above
\* 0.7, it has made exactly three calls: simulate for (shipment, risk), then
\* execute the action of a highest-scoring scenario, then notify with that
\* action and its result.
C7_SimulateExecuteNotify ==
  ( /\ mon.handled
    /\ mon.sims # << >>
    /\ TopScore(mon.sims) > Scaled(7, 10) )
    => /\ Len(mon.calls) = 3
       /\ mon.calls[1] = <<"simulate", risks[mon.risk_id].shipment_id, mon.risk_id>>
       /\ mon.calls[2][1] = "execute"
       /\ \E k \in 1 .. Len(mon.sims) :
            /\ mon.sims[k].confidence = TopScore(mon.sims)
            /\ mon.sims[k].action_type = mon.calls[2][3]
       /\ mon.result # << >>
       /\ mon.calls[3] = <<"notify", risks[mon.risk_id].shipment_id, mon.risk_id,
                         mon.calls[2][3], mon.result[1]>>

\* C8: a request to update_risk_status or update_risk whose change of status
\* is not an edge of the lifecycle leaves the risk's status as it was.
C8_IllegalTransitionRejected ==
  [][\A r \in RiskIds, st \in StatusInputs :
       ( /\ UpdateRiskStatus(r, st) \/ UpdateRisk(r, st)
         /\ <<risks[r].status, NormalizeStatus(st)>> \notin LifecycleEdges )
       => risks'[r].status = risks[r].status]_vars

\* C9: a risk whose status is RESOLVED or ESCALATED keeps that status in
\* every later state.
C9_TerminalStatusNeverChanges ==
  [][\A r \in RiskIds :
       risks[r].status \in TerminalStatuses => risks'[r].status = risks[r].status]_vars

\* C10: once the pipeline has executed the selected scenario and the Action
\* Executor has reported success, the risk's recorded status is RESOLVED.
C10_SuccessEndsResolved ==
  (mon.handled /\ mon.result = << TRUE >>)
    => risks[mon.risk_id].status = RiskStatus.RESOLVED

\* C11: once the pipeline has handled a risk for which the Action Executor
\* reported success = false, the risk's recorded status is ESCALATED and the
\* executor was called exactly once for it.
C11_FailedExecutionEndsEscalated ==
  (mon.handled /\ mon.result = << FALSE >>)
    => /\ risks[mon.risk_id].status = RiskStatus.ESCALATED
       /\ Cardinality({k \in 1 .. Len(mon.calls) : mon.calls[k][1] = "execute"}) = 1

\* C12: once the pipeline has ended for a risk whose simulate_mitigations
\* call raised, the risk has been escalated (the escalation ran and the
\* recorded status is ESCALATED) and the Action Executor was not called.
C12_FailedSimulationEscalates ==
  (mon.handled /\ mon.sim_failed)
    => /\ risks[mon.risk_id].status = RiskStatus.ESCALATED
       /\ \E k \in 1 .. Len(mon.calls) : mon.calls[k][1] = "escalate"
       /\ \A k \in 1 .. Len(mon.calls) : mon.calls[k][1] # "execute"

\* C13: apply_mitigation records a supplied result on the risk; it sets the
\* status to RESOLVED (and resolved_at) when the result is a dict whose
\* "status" is "completed", and for every other result, or none, it leaves
\* the risk's status as it was.
C13_ApplyMitigationResolvesOnCompleted ==
  [][\A r \in RiskIds, res \in MitigationResults :
       ApplyMitigation(r, res)
       => /\ risks'[r].mitigation_result =
               (IF res # NoValue THEN res ELSE risks[r].mitigation_result)
          /\ res = "completed"
               => risks'[r].status = RiskStatus.RESOLVED /\ risks'[r].resolved_at
          /\ res # "completed" => risks'[r].status = risks[r].status]_vars

\* C13 witness: one risk carries a recorded result other than completed and
\* is still DETECTED, another carries a completed result and is RESOLVED
C13_Witness ==
  \E i, j \in RiskIds :
     /\ risks[i].mitigation_result \in {"failed", "no_status", "text"}
     /\ risks[i].status = RiskStatus.DETECTED
     /\ risks[j].mitigation_result = "completed"
     /\ risks[j].status = RiskStatus.RESOLVED
     /\ risks[j].resolved_at

\* the risks of shipment sid
RisksOf(sid) == {i \in RiskIds : risks[i].shipment_id = sid}

\* C14: a shipment that has risks, all of them RESOLVED or ESCALATED, has
\* is_at_risk false and risk_score 0.0, the maximum over its active risks
\* (every operation that makes a risk terminal ends with the rollup).
C14_RollupCountsActiveOnly ==
  \A sid \in ShipmentIds :
     ( /\ RisksOf(sid) # {}
       /\ \A i \in RisksOf(sid) : risks[i].status \in TerminalStatuses )
     => /\ shipments[sid].is_at_risk = FALSE
        /\ shipments[sid].risk_score = 0

\* C15: the step that ends an assess_shipment call leaves the shipment's
\* rollup (risk_score, is_at_risk, last_risk_check) as
\* _update_shipment_risk_flags computes it from the risks table, whether or
\* not the call persisted a risk.
C15_AssessAlwaysRecomputesRollup ==
  [][\A a \in AssessCallers :
       (assess[a].pc = "finish" /\ assess'[a].pc = "idle")
       => shipments'[assess[a].sid] =
            UpdateShipmentRiskFlags(risks, shipments, assess[a].sid)[assess[a].sid]]_vars

\* C16: under fair scheduling of both loops, every risk that is persisted
\* eventually has status RESOLVED or ESCALATED.
C16_EveryRiskReachesTerminal ==
  \A i \in 1 .. MaxRisks :
     (Len(risks) >= i) ~> (Len(risks) >= i /\ risks[i].status \in TerminalStatuses)

\* C17: whenever the monitor loop or the risk assessment loop is in its
\* except clause, it later starts a further iteration.
C17_LoopSurvivesException ==
  /\ (orch.mloop.pc = "except") ~> (orch.mloop.pc = "iter")
  /\ (orch.aloop.pc = "except") ~> (orch.aloop.pc = "iter")

\* C17 witness: both loops have been through their except clause and are
\* iterating again
C17_Witness ==
  /\ orch.mloop.raised /\ orch.mloop.pc = "iter"
  /\ orch.aloop.raised /\ orch.aloop.pc = "iter"

\* C18: a shipment that is in_transit is eventually in the active set (unless
\* it stops being in_transit), and a shipment of the active set that has
\* arrived or is cancelled is eventually out of it (unless it is in_transit
\* again).
C18_ActiveSetRefreshed ==
  \A sid \in LoopShipmentIds :
     /\ (orch.started /\ shipments[sid].status = ShipmentStatus.IN_TRANSIT)
          ~> \/ sid \in DOMAIN orch.active_shipments
             \/ shipments[sid].status # ShipmentStatus.IN_TRANSIT
     /\ ( /\ sid \in DOMAIN orch.active_shipments
          /\ shipments[sid].status \in {ShipmentStatus.ARRIVED, ShipmentStatus.CANCELLED} )
          ~> \/ sid \notin DOMAIN orch.active_shipments
             \/ shipments[sid].status = ShipmentStatus.IN_TRANSIT

\* C19: when a monitor tick has gone through the active set, every shipment
\* of the set whose row satisfies the rule of a check has a risk of that
\* check's type persisted by the monitor.
C19_MonitorTickReadsLiveFields ==
  [][(orch.mloop.pc = "iter" /\ orch'.mloop.pc = "top")
       => \A sid \in DOMAIN orch.active_shipments, k \in DOMAIN MonitorChecks :
            LET found == CheckResult(MonitorChecks[k], sid, FlatData(shipments[sid])) IN
            found # << >>
            => \E i \in RiskIds :
                 /\ risks[i].shipment_id = sid
                 /\ risks[i].risk_type = found[1].risk_type
                 /\ risks[i].origin = "monitor"]_vars

\* the monitor loop is inside its for over active_shipments: an item is
\* still to come or the body is running
MonitorIterating ==
  orch.mloop.pc = "iter" /\ (orch.mloop.todo # << >> \/ mon.pc # "idle")

\* the risk assessment loop is inside its for over active_shipments
AssessorIterating ==
  orch.aloop.pc = "iter" /\ (orch.aloop.todo # << >> \/ assess["assessor"].pc # "idle")

\* C20: no step taken while the monitor loop or the risk assessment loop is
\* in the middle of iterating active_shipments changes the set's keys.
C20_ActiveSetStableWhileIterated ==
  [][(MonitorIterating \/ AssessorIterating)
       => DOMAIN orch'.active_shipments = DOMAIN orch.active_shipments]_vars

\* C20 witness: the risk assessment loop is in the body of its for, inside
\* assess_shipment, and the monitor loop has an item to come, while a
\* shipment outside the set is in_transit and one inside it has arrived or
\* is cancelled
C20_Witness ==
  /\ orch.aloop.pc = "iter" /\ assess["assessor"].pc = "insert"
  /\ orch.mloop.pc = "iter" /\ orch.mloop.todo # << >>
  /\ \E sid \in ShipmentIds :
        /\ sid \notin DOMAIN orch.active_shipments
        /\ shipments[sid].status = ShipmentStatus.IN_TRANSIT
  /\ \E sid \in DOMAIN orch.active_shipments :
        shipments[sid].status \in {ShipmentStatus.ARRIVED, ShipmentStatus.CANCELLED}

\* the monitor task is past the commit of _create_risk and inside the
\* pipeline of the risk it created
PastCommit == mon.pc \in {"flags", "publish", "simulate", "execute", "notify"}

\* C21: from the commit of _create_risk on, through the publish of
\* risk_detected and the whole decision pipeline, the risks table holds the
\* row of the new risk id, and a risk_detected event names only a risk id
\* whose row exists.
C21_RowCommittedBeforeReadBack ==
  /\ PastCommit
       => /\ mon.risk_id \in RiskIds
          /\ risks[mon.risk_id].shipment_id = mon.sid
          /\ risks[mon.risk_id].description = mon.cand[1].description
  /\ \A e \in published : e[1] = "risk_detected" => e[3] \in RiskIds

\* C21 witness: the simulator is about to read the risk the monitor has
\* created and announced
C21_Witness ==
  /\ mon.pc = "simulate"
  /\ mon.risk_id \in RiskIds
  /\ <<"risk_detected", mon.sid, mon.risk_id>> \in published

\* C22: execute_action has been called at most once for every risk.
C22_ExecutedAtMostOncePerRisk ==
  \A r \in RiskIds : risks[r].executions <= 1

\* C22 witness: the pipeline has ended for a risk whose one execution
\* failed, and a later risk has been executed as well
C22_Witness ==
  \E r \in RiskIds :
     /\ r < mon.risk_id
     /\ mon.risk_id \in RiskIds
     /\ risks[r].executions = 1
     /\ risks[mon.risk_id].executions = 1
     /\ mon.handled
     /\ mon.result = << FALSE >>

\* the metadata key a handler writes as its audit entry
AuditKey(action_type) ==
  CASE action_type = "reroute" -> "rerouted_at"
    [] action_type = "delay" -> "schedule_adjusted_at"
    [] action_type = "expedite_customs" -> "customs_expedited_at"
    [] OTHER -> NoValue

HandledActionTypes == {"reroute", "mode_switch", "expedite_customs", "delay"}

\* C24: a step in which execute_action is called with an action type other
\* than reroute, mode_switch, expedite_customs and delay returns success =
\* true and leaves the shipment as it was.
C24_UnknownActionIsNoOpSuccess ==
  [][(mon.pc = "execute" /\ mon'.pc = "notify"
        /\ mon.best[1].action_type \notin HandledActionTypes)
       => /\ mon'.result = << TRUE >>
          /\ shipments' = shipments]_vars

SimulationEdges ==
  { <<SimulationStatus.PENDING, SimulationStatus.RUNNING>>,
    <<SimulationStatus.RUNNING, SimulationStatus.COMPLETED>>,
    <<SimulationStatus.RUNNING, SimulationStatus.FAILED>>,
    <<SimulationStatus.PENDING, SimulationStatus.FAILED>> }

\* C26: a simulation record is created pending, and every change of its
\* status is pending -> running, running -> completed, or a move to failed;
\* it never becomes completed from a status other than running.
C26_StatusMovesThroughRunning ==
  [][ /\ \A i \in DOMAIN simulations' \ DOMAIN simulations :
           simulations'[i].status = SimulationStatus.PENDING
      /\ \A i \in DOMAIN simulations :
           \/ simulations'[i].status = simulations[i].status
           \/ <<simulations[i].status, simulations'[i].status>> \in SimulationEdges ]_vars

\* C27: once a simulation record is completed or failed, no step changes its
\* results, best_option, confidence_score or status.
C27_FinishedRecordImmutable ==
  [][ \A i \in DOMAIN simulations :
        simulations[i].status \in {SimulationStatus.COMPLETED, SimulationStatus.FAILED}
        => /\ simulations'[i].results = simulations[i].results
           /\ simulations'[i].best_option = simulations[i].best_option
           /\ simulations'[i].confidence_score = simulations[i].confidence_score
           /\ simulations'[i].status = simulations[i].status ]_vars

\* C28: a simulation record whose background task has ended with an
\* exception has status failed.
C28_FailedTaskMarksRecordFailed ==
  \A i \in SimulationIds :
    simulations[i].task.pc = "raised" => simulations[i].status = SimulationStatus.FAILED

\* C29: every step that adds a row to the risks table, through create_risk,
\* _create_risk or assess_shipment, adds it with a type of RiskType, a
\* severity of RiskSeverity and status detected, whatever strings were
\* passed; and the coercion of each of the three maps every string to such
\* a value.
C29_CreatedRiskIsNormalised ==
  [][ /\ \A i \in DOMAIN risks' \ DOMAIN risks :
           /\ risks'[i].risk_type \in RiskTypeValues
           /\ risks'[i].severity \in RiskSeverityValues
           /\ risks'[i].status = RiskStatus.DETECTED
      /\ \A x \in RiskTypeInputs :
           {CreateRiskType(x), OrchestratorRiskType(x), AssessRiskType(x)}
             \subseteq RiskTypeValues
      /\ \A x \in RiskSeverityInputs :
           {CreateRiskSeverity(x), OrchestratorRiskSeverity(x), AssessRiskSeverity(x)}
             \subseteq RiskSeverityValues ]_vars

\* create_risk and _create_risk have each stored a row for the type string
\* "piracy" and the severity string "severe", as other and medium
C29_Witness ==
  /\ \E i \in RiskIds :
       /\ risks[i].origin = "create"
       /\ risks[i].description = <<"Reported", "piracy">>
       /\ risks[i].risk_type = RiskTypeOther
       /\ risks[i].severity = RiskSeverity.MEDIUM
  /\ \E j \in RiskIds :
       /\ risks[j].origin = "monitor"
       /\ risks[j].description = <<"Reported", "piracy">>
       /\ risks[j].risk_type = RiskTypeOther
       /\ risks[j].severity = RiskSeverity.MEDIUM

\* the list is in descending order of confidence
SortedDescending(sims) ==
  \A i \in 1 .. Len(sims), j \in 1 .. Len(sims) :
    i < j => sims[i].confidence >= sims[j].confidence

\* C30: the scenario list simulate_mitigations returns for a risk of the
\* table is sorted in descending order of score.
C30_ScenariosSortedDescending ==
  \A r \in RiskIds :
    SortedDescending(SimulateMitigations(risks[r], shipments[risks[r].shipment_id]))

\* the last direct call was of one of the functions fns
Returned(fns) == returned # << >> /\ returned[1].fn \in fns

CongestionRules == {"_detect_port_congestion", "_check_port_congestion"}

DelayRules == {"_detect_delays", "_check_delays"}

\* C31: for two scenarios scored for one risk, if A has strictly lower
\* cost_impact and equal or greater estimated time savings than B, the score
\* of A is at least the score of B.
C31_ScoringMonotone ==
  Returned({"_run_simulation"}) =>
    LET r == returned[1]
    IN (/\ r.a.cost_impact < r.b.cost_impact
        /\ r.a.estimated_time_savings >= r.b.estimated_time_savings)
       => r.out[1].confidence >= r.out[2].confidence

\* two scenarios have been scored, the cheaper and no slower one higher
C31_Witness ==
  /\ Returned({"_run_simulation"})
  /\ returned[1].a.cost_impact < returned[1].b.cost_impact
  /\ returned[1].a.estimated_time_savings
       >= returned[1].b.estimated_time_savings
  /\ returned[1].out[1].confidence > returned[1].out[2].confidence

C33_HighAtExactlyPointEight ==
  (Returned(CongestionRules) /\ returned[1].level = Scaled(8, 10)) =>
    /\ returned[1].out # << >>
    /\ returned[1].out[1].risk_type = RiskType.PORT_CONGESTION
    /\ returned[1].out[1].severity = RiskSeverity.HIGH

\* C34: the schedule-deviation rule of detect_risks and of the
\* orchestrator's check: a risk of type other is emitted if and only if the
\* shipment is more than 4 hours past estimated_arrival, with severity HIGH
\* if the delay exceeds 24 hours and MEDIUM otherwise, and confidence
\* min(0.9, delay_hours / 48).
C34_ScheduleDeviationRule ==
  Returned(DelayRules) =>
    LET r == returned[1]
    IN /\ (r.out # << >>) <=> (r.hours > 4)
       /\ r.out # << >> =>
            /\ Len(r.out) = 1
            /\ r.out[1].risk_type = RiskTypeOther
            /\ r.out[1].severity = IF r.hours > 24
                                   THEN RiskSeverity.HIGH ELSE RiskSeverity.MEDIUM
            /\ r.out[1].confidence = Min(Scaled(9, 10), Scaled(r.hours, 48))

\* the detector has been called for a shipment 6 hours late and has returned
\* one MEDIUM risk
C34_Witness ==
  /\ Returned(DelayRules)
  /\ returned[1].fn = "_detect_delays"
  /\ returned[1].hours = 6
  /\ Len(returned[1].out) = 1
  /\ returned[1].out[1].severity = RiskSeverity.MEDIUM
  /\ returned[1].out[1].confidence = Scaled(6, 48)

\* C35: while the decision pipeline is simulating mitigations for a risk the
\* risk's recorded status is ANALYZING, and when the pipeline invokes the
\* executor for it the recorded status is MITIGATING.
C35_PipelineRecordsProgress ==
  /\ (mon.pc = "simulate" /\ mon.risk_id \in RiskIds)
       => risks[mon.risk_id].status = RiskStatus.ANALYZING
  /\ (mon.pc = "execute" /\ mon.risk_id \in RiskIds)
       => risks[mon.risk_id].status = RiskStatus.MITIGATING

\* the fields of a shipment an action handler writes
ActionFields(sh) == <<sh.next_port, sh.routes, sh.hours_late, sh.metadata>>

NextPorts == {"CNSHA", "USLAX", "SGSIN", "NLRTM", "CNNGB", NoValue}

\* the confidences simulate_mitigations computes for a risk of a type
BuiltInConfidences(rtype) ==
  UNION { {RunSimulation(GenerateMitigationScenarios(rtype, port)[i]).confidence :
             i \in 1 .. Len(GenerateMitigationScenarios(rtype, port))} : port \in NextPorts }

\* C37: every built-in mitigation template scores at most 0.7, whatever the
\* risk type, so a pipeline step that gets its scenarios from
\* simulate_mitigations never goes on to the executor: it escalates.
C37_BuiltInTemplatesAlwaysEscalate ==
  [][/\ \A rtype \in RiskTypeValues \cup {"unknown"} :
          \A c \in BuiltInConfidences(rtype) : c <= ConfidenceThreshold
     /\ (mon.pc = "simulate" /\ mon.risk_id \in RiskIds
           /\ mon'.sims = SimulateMitigations(risks[mon.risk_id], shipments[mon.sid]))
          => /\ mon'.pc # "execute"
             /\ ~mon'.raised
             /\ mon'.calls = << <<"simulate", mon.sid, mon.risk_id>>,
                                <<"escalate", mon.sid, mon.risk_id>> >>]_vars

\* the pipeline has simulated a customs delay with the built-in templates
\* and has escalated it
C37_Witness ==
  /\ mon.handled
  /\ mon.risk_id \in RiskIds
  /\ risks[mon.risk_id].risk_type = RiskType.CUSTOMS_DELAY
  /\ mon.sims = SimulateMitigations(risks[mon.risk_id], shipments[mon.sid])
  /\ mon.calls = << <<"simulate", mon.sid, mon.risk_id>>,
                    <<"escalate", mon.sid, mon.risk_id>> >>

\* no risk operation is between its commit of a row and its write of the
\* shipment's flags
NoRiskOperationRunning ==
  /\ mon.pc # "flags"
  /\ \A a \in AssessCallers : assess[a].pc = "idle"

\* C36: after any completed risk operation (create_risk, update_risk,
\* update_risk_status, apply_mitigation, delete_risk, an assess_shipment that
\* persisted a risk, the orchestrator's _create_risk) the shipment's
\* is_at_risk flag is true if and only if the shipment has at least one risk
\* with status DETECTED.
C36_AtRiskIffDetected ==
  NoRiskOperationRunning
  => \A sid \in ShipmentIds :
        shipments[sid].is_at_risk
          <=> \E r \in RiskIds : /\ risks[r].shipment_id = sid
                                 /\ risks[r].status = RiskStatus.DETECTED

\* C38: a risk whose status is RESOLVED has resolved_at set, whichever of
\* update_risk, update_risk_status and apply_mitigation resolved it.
C38_ResolvedHasResolvedAt ==
  \A r \in 1 .. Len(risks) :
     risks[r].status = RiskStatus.RESOLVED => risks[r].resolved_at

\* one risk has been resolved by apply_mitigation and another by a status
\* update
C38_Witness ==
  \E r, q \in RiskIds :
     /\ risks[r].status = RiskStatus.RESOLVED
     /\ risks[r].mitigation_result = "completed"
     /\ risks[r].resolved_at
     /\ risks[q].status = RiskStatus.RESOLVED
     /\ risks[q].mitigation_result = NoValue
     /\ risks[q].resolved_at

\* C40: an exception raised while one shipment is monitored, in a check, in
\* the creation of a risk or in its decision pipeline, is contained to that
\* shipment: it leaves the loop where it is, with the monitor task free for
\* the next shipment; the shipments left in the tick are then monitored one
\* by one, and the tick leaves its iteration only with none left, for its
\* message processing and its sleep.
C40_MonitorExceptionContained ==
  [][/\ (mon.pc # "idle" /\ mon'.raised /\ ~mon.raised)
          => /\ orch' = orch
             /\ mon'.pc = "idle"
     /\ (orch.mloop.pc = "iter" /\ orch'.mloop # orch.mloop)
          => IF orch.mloop.todo # << >>
             THEN /\ orch'.mloop.pc = "iter"
                  /\ orch'.mloop.todo = Tail(orch.mloop.todo)
                  /\ mon'.sid = Head(orch.mloop.todo)
             ELSE orch'.mloop.pc = "top"]_vars

\* the pipeline of shipment 1 has raised, shipment 2 has been monitored
\* after it and the tick has gone through its sleep
C40_Witness ==
  /\ mon.raised
  /\ mon.risk_id \in RiskIds
  /\ risks[mon.risk_id].shipment_id = 1
  /\ mon.sid = 2
  /\ mon.pc = "idle"
  /\ orch.mloop.pc = "top"

====
